---- MODULE Spec2Model ----
(***************************************************************************)
(* The Scene Builder's chapter/scene store (SceneBuilder component,        *)
(* src/unnamed/part_002): the scene and store normalizers, the reindexer,  *)
(* the two backend merges, and the component's handlers and effects.       *)
(*                                                                         *)
(* Encoding of JavaScript values                                           *)
(*   - an absent / null / undefined field is the falsy value of its type:  *)
(*     0 for an id, "" for a string, NoTitle for a title, NoOrdering for   *)
(*     an ordering that is not a number;                                   *)
(*   - a scene title is <<kind, chapterTitle, n>>: the template strings    *)
(*     `Scene ${n}` and `${chapterTitle} – Scene ${n}` and any other       *)
(*     text are kept apart, so that string equality and the regular        *)
(*     expression /^Scene \d+$/ are computed on the structure;             *)
(*   - a value that may be null is None (<<>>) or Some(v) (<<v>>);         *)
(*   - Date.now()/Math.random() ids are fresh: the smallest positive       *)
(*     integers that occur nowhere in the state.                           *)
(***************************************************************************)
EXTENDS Integers, Sequences, FiniteSets, TLC

VARIABLES
  sceneStore,       \* useState sceneStore: [chapters, currentChapterId, currentSceneId]
  mounted,          \* whether the SceneBuilder component is mounted
  backendEnabled,   \* storageService.isBackendEnabled()
  suppressPersist,  \* suppressPersistRef.current
  persistTimer,     \* persistTimerRef: None, or Some(payload of the store the pending timer captured)
  seedApplied,      \* seedAppliedRef.current
  storeCache,       \* localStorage[scene_builder_store_<project>]: None or Some(blob)
  seedCache,        \* localStorage[scene_builder_seed_<project>]: None or Some(seed)
  seedLog,          \* history: what became of the seed openInSceneBuilder wrote last
  scenesReq,        \* the loadScenes request of the current effect run
  manuscriptReq,    \* the loadManuscript request of the current effect run
  plan,             \* planScenesFromOutline awaiting the planner: None or Some(closure)
  scheduledOrigin,  \* history: what produced the store the pending timer captured
  lastEdit,         \* history: the latest user edit made while loadScenes is in flight
  persistTimerRef,  \* SpecEffects: persistTimerRef.current as a timeout handle (0: null)
  timeouts,         \* SpecEffects: the browser's pending timeouts: [handle, payload, detached]
  inflight,         \* SpecEffects: requests awaiting their response: [kind, cancelled, detached]
  saveScenesCall,   \* SpecEffects: history: the latest call of storageService.saveScenes
  settled,          \* SpecEffects: history: the latest request that settled
  activeProject,    \* SpecSession: activeProject of the ProjectContext
  quotaExceeded,    \* SpecSession: whether localStorage.setItem throws (the storage is full)
  storeOwner,       \* SpecSession: history: the project sceneStore was loaded for
  keyWrites,        \* SpecSession: history: [key, owner] of the latest writes of a store key
  userEdit,         \* SpecSession: history: the latest user mutation [n, scheduled]
  fnOp,             \* function-level specifications: the operation applied ("" before)
  fnIn,             \* its input
  fnOut             \* its result

compVars == <<sceneStore, mounted, backendEnabled, suppressPersist, persistTimer,
              seedApplied, storeCache, seedCache, scenesReq, manuscriptReq, plan,
              scheduledOrigin, lastEdit, persistTimerRef, timeouts, inflight,
              saveScenesCall, settled, seedLog, activeProject, quotaExceeded,
              storeOwner, keyWrites, userEdit>>
\* the part of the component only SpecEffects follows
sessionVars == <<activeProject, quotaExceeded, storeOwner, keyWrites, userEdit>>
envVars == <<persistTimerRef, timeouts, inflight, saveScenesCall, settled, seedLog, sessionVars>>
fnVars == <<fnOp, fnIn, fnOut>>
vars == <<compVars, fnVars>>

----------------------------------------------------------------------------
(* Bounds of the model *)

\* the longest scene list addScene and integrateSeed may grow a chapter to
MaxScenes == 2
\* the most scenes a store may hold when addScene or a seed adds one more
MaxStoreScenes == 3
\* the longest raw scene list handed to the function-level specifications
MaxRawScenes == 2
\* the longest character list handed to normalizeChapterMetadata
MaxCharacters == 2
\* the most user mutations in a row that SpecSession follows
MaxEdits == 2

----------------------------------------------------------------------------
(* JavaScript values *)

None == <<>>
Some(v) == <<v>>

NoOrdering == 0 - 1

NoTitle == <<"", "", 0>>
\* `Scene ${n}`
SceneN(n) == <<"Scene", "", n>>
\* `${chapterTitle} – Scene ${n}`
ChapterSceneN(chapterTitle, n) == <<"ChapterScene", chapterTitle, n>>
\* any other text
CustomTitle(s) == <<"Custom", s, 0>>

\* /^Scene \d+$/.test(title)
MatchesBareScene(title) == title[1] = "Scene"

\* {} as scene metadata, and an absent metadata field
EmptyObject == <<"object", "">>
NoMetadata == <<"undefined", "">>

\* JavaScript truthiness of a metadata value <<type, content>>
MetadataTruthy(m) ==
  CASE m[1] = "undefined" -> FALSE
    [] m[1] = "null" -> FALSE
    [] m[1] = "boolean" -> m[2] = "true"
    [] m[1] = "number" -> m[2] # "0"
    [] m[1] = "string" -> m[2] # ""
    [] OTHER -> TRUE

\* JSON.parse of the text s: Some(value), or None when it throws
JSONparse(s) ==
  CASE s = "{}" -> Some(EmptyObject)
    [] s = "\"abc\"" -> Some(<<"string", "abc">>)
    [] s = "5" -> Some(<<"number", "5">>)
    [] s = "null" -> Some(<<"null", "">>)
    [] s = "false" -> Some(<<"boolean", "false">>)
    [] OTHER -> None

\* the k-th smallest positive integer outside `used` (k >= 1)
FreshId(used, k) ==
  LET candidates == (1..(Cardinality(used) + k)) \ used
  IN CHOOSE n \in candidates : Cardinality({m \in candidates : m < n}) = k - 1

----------------------------------------------------------------------------
(* Scenes *)

sceneTypes == {"dialogue", "action", "emotional", "exposition", "climax", "transition"}

\* a canonical scene read as a candidate: it has no dbId and no sceneType
Candidate(scene) ==
  [id |-> scene.id, dbId |-> 0, title |-> scene.title, type |-> scene.type,
   sceneType |-> "", text |-> scene.text, notes |-> scene.notes,
   metadata |-> scene.metadata, ordering |-> scene.ordering]

Candidates(scenes) == [i \in 1..Len(scenes) |-> Candidate(scenes[i])]

\* defaultScene(index, {title}): no ordering field is set
defaultScene(index, title, fresh) ==
  [id |-> fresh,
   title |-> IF title # NoTitle THEN title ELSE SceneN(index + 1),
   type |-> "dialogue", text |-> "", notes |-> "",
   metadata |-> EmptyObject, ordering |-> NoOrdering]

\* lines 1400-1407 of normalizeScene
normalizeMetadata(raw) ==
  LET metadata == IF MetadataTruthy(raw) THEN raw ELSE EmptyObject
  IN IF metadata[1] = "string"
       THEN (IF JSONparse(metadata[2]) # None THEN JSONparse(metadata[2])[1] ELSE EmptyObject)
       ELSE metadata

normalizeScene(scene, index, fresh) ==
  LET baseId == IF scene.id # 0 THEN scene.id
                ELSE IF scene.dbId # 0 THEN scene.dbId ELSE fresh
  IN [id |-> baseId,
      title |-> IF scene.title # NoTitle THEN scene.title ELSE SceneN(index + 1),
      type |-> IF scene.type # "" THEN scene.type
               ELSE IF scene.sceneType # "" THEN scene.sceneType ELSE "dialogue",
      text |-> scene.text,
      notes |-> scene.notes,
      metadata |-> normalizeMetadata(scene.metadata),
      ordering |-> IF scene.ordering # NoOrdering THEN scene.ordering ELSE index]

\* how many of the first i candidates get a generated id
NeedsId(scene) == scene.id = 0 /\ scene.dbId = 0
GeneratedUpTo(scenes, i) == Cardinality({j \in 1..i : NeedsId(scenes[j])})

\* a mutant: the regular expression is not anchored, /Scene \d+$/, and takes
\* every title that ends in `Scene <n>` for a default
shouldRenumberMutant(chapterTitle, title, index) ==
  \/ title = NoTitle
  \/ MatchesBareScene(title)
  \/ title[1] = "ChapterScene"
\* lines 1426-1430: the title is an auto-generated default (index is 0-based)
shouldRenumber(chapterTitle, title, index) ==
  LET defaultTitle == SceneN(index + 1)
      chapterDefault == IF chapterTitle # "" THEN ChapterSceneN(chapterTitle, index + 1)
                        ELSE defaultTitle
  IN \/ title = NoTitle
     \/ title = defaultTitle
     \/ (chapterTitle # "" /\ title = chapterDefault)
     \/ MatchesBareScene(title)

\* a mutant: `ordering: index` is lost, the normalized ordering stays
reindexOneMutant(chapterTitle, scene, index, fresh) ==
  LET normalized == normalizeScene(scene, index, fresh)
      chapterDefault == IF chapterTitle # "" THEN ChapterSceneN(chapterTitle, index + 1)
                        ELSE SceneN(index + 1)
  IN [normalized EXCEPT
        !.title = IF shouldRenumber(chapterTitle, scene.title, index)
                    THEN chapterDefault ELSE normalized.title]
\* the callback of scenes.map in reindexScenes (index is 0-based)
reindexOne(chapterTitle, scene, index, fresh) ==
  LET normalized == normalizeScene(scene, index, fresh)
      defaultTitle == SceneN(index + 1)
      chapterDefault == IF chapterTitle # "" THEN ChapterSceneN(chapterTitle, index + 1)
                        ELSE defaultTitle
  IN [normalized EXCEPT
        !.title = IF shouldRenumber(chapterTitle, scene.title, index)
                    THEN chapterDefault ELSE normalized.title,
        !.ordering = index]

\* reindexScenes(chapterTitle, scenes); `used` are the ids a generated id must avoid
reindexScenes(chapterTitle, scenes, used) ==
  [i \in 1..Len(scenes) |->
     reindexOne(chapterTitle, scenes[i], i - 1,
                FreshId(used, GeneratedUpTo(scenes, i - 1) + 1))]

----------------------------------------------------------------------------
(* Chapters and the store *)

\* String(id) of a manuscript chapter id, and the chapter ids of the model
String(n) == CASE n = 7 -> "7" [] n = 8 -> "8" [] OTHER -> "NaN"
\* a mutant: every key of chapters passes for the id of a manuscript chapter
IsIntegerIdMutant(chapterId) == TRUE
\* Number.isInteger(Number(chapterId))
IsIntegerId(chapterId) == chapterId \in {"7", "8"}
\* `Chapter ${id}`
ChapterLabel(id) == "Chapter " \o id

\* Object.keys order of a chapters map: integer keys ascending, then the others
KeyOrder == <<"7", "8", "standalone">>
ChapterIds == {KeyOrder[i] : i \in 1..Len(KeyOrder)}
ObjectKeys(chapters) == SelectSeq(KeyOrder, LAMBDA id : id \in DOMAIN chapters)

\* the ids of the scenes of a list, and of a whole chapters map
SceneIds(scenes) == {scenes[i].id : i \in 1..Len(scenes)}
StoreSceneIds(chapters) == UNION {SceneIds(chapters[id].scenes) : id \in DOMAIN chapters}
HasScene(scenes, sceneId) == \E i \in 1..Len(scenes) : scenes[i].id = sceneId

\* obj with obj[key] = value (the spread {...obj, [key]: value})
Put(obj, key, value) ==
  [k \in DOMAIN obj \cup {key} |-> IF k = key THEN value ELSE obj[k]]

createDefaultStore(fresh) ==
  LET firstScene == defaultScene(0, NoTitle, fresh)
  IN [chapters |-> [id \in {"standalone"} |->
                      [chapterTitle |-> "Standalone Scenes", outline |-> "",
                       scenes |-> <<firstScene>>]],
      currentChapterId |-> "standalone",
      currentSceneId |-> firstScene.id]

----------------------------------------------------------------------------
(* The store normalizer *)

\* what a call does: it returns a value or throws a TypeError
Return(v) == [threw |-> FALSE, value |-> Some(v)]
Throw == [threw |-> TRUE, value |-> None]

\* JSON.parse(JSON.stringify(store)): every object of a store the component wrote
\* is present; a default scene has no ordering and reads back without one
StoreBlob(store) ==
  [kind |-> "object",
   chapters |-> Some([id \in DOMAIN store.chapters |->
      Some([chapterTitle |-> store.chapters[id].chapterTitle,
            outline |-> store.chapters[id].outline,
            scenes |-> Some([i \in 1..Len(store.chapters[id].scenes) |->
                               Some(Candidate(store.chapters[id].scenes[i]))])])]),
   currentChapterId |-> store.currentChapterId,
   currentSceneId |-> store.currentSceneId]

\* Array.isArray(chapter.scenes) && chapter.scenes.length
HasSceneArray(chapter) == chapter.scenes # None /\ Len(chapter.scenes[1]) > 0
\* the candidates of a scene array without null entries
Unwrap(list) == [i \in 1..Len(list) |-> list[i][1]]
\* the ids normalizeStore generates for one chapter entry
GeneratedFor(chapter) ==
  IF HasSceneArray(chapter)
    THEN GeneratedUpTo(Unwrap(chapter.scenes[1]), Len(chapter.scenes[1]))
    ELSE 1
RECURSIVE GeneratedBefore(_, _, _)
\* the ids generated for the entries that Object.entries yields before position p
GeneratedBefore(rawChapters, keys, p) ==
  IF p <= 1 THEN 0
  ELSE GeneratedBefore(rawChapters, keys, p - 1) + GeneratedFor(rawChapters[keys[p - 1]][1])
Position(keys, id) == CHOOSE p \in 1..Len(keys) : keys[p] = id

\* the ids a blob mentions
BlobSceneIds(blob) ==
  IF blob.kind # "object" THEN {}
  ELSE {blob.currentSceneId} \cup
       (IF blob.chapters = None THEN {}
        ELSE UNION {
          IF blob.chapters[1][id] = None \/ blob.chapters[1][id][1].scenes = None THEN {}
          ELSE LET list == blob.chapters[1][id][1].scenes[1]
               IN UNION {IF list[i] = None THEN {} ELSE {list[i][1].id, list[i][1].dbId}
                         : i \in 1..Len(list)}
          : id \in DOMAIN blob.chapters[1]})

normalizeStore(blob, used) ==
  IF blob.kind \notin {"object", "array"}
    THEN Return(createDefaultStore(FreshId(used, 1)))
  ELSE
    LET rawChapters == IF blob.kind = "object" /\ blob.chapters # None
                         THEN blob.chapters[1] ELSE <<>>
        keys == ObjectKeys(rawChapters)
        \* chapter.scenes of a null entry, scene.id of a null scene
        dereferencesNull ==
          \E id \in DOMAIN rawChapters :
            \/ rawChapters[id] = None
            \/ /\ HasSceneArray(rawChapters[id][1])
               /\ \E i \in 1..Len(rawChapters[id][1].scenes[1]) :
                    rawChapters[id][1].scenes[1][i] = None
        chapters ==
          [id \in DOMAIN rawChapters |->
             LET chapter == rawChapters[id][1]
                 before == GeneratedBefore(rawChapters, keys, Position(keys, id))
                 scenes == IF HasSceneArray(chapter)
                             THEN [i \in 1..Len(chapter.scenes[1]) |->
                                     reindexOne(chapter.chapterTitle, chapter.scenes[1][i][1], i - 1,
                                       FreshId(used, before
                                         + GeneratedUpTo(Unwrap(chapter.scenes[1]), i - 1) + 1))]
                             ELSE <<defaultScene(0, NoTitle, FreshId(used, before + 1))>>
             IN [chapterTitle |-> IF chapter.chapterTitle # "" THEN chapter.chapterTitle
                                  ELSE "Untitled Chapter",
                 outline |-> chapter.outline,
                 scenes |-> scenes]]
    IN IF dereferencesNull THEN Throw
       ELSE IF DOMAIN rawChapters = {} THEN Return(createDefaultStore(FreshId(used, 1)))
       ELSE
         LET currentChapterId == IF blob.currentChapterId # "" THEN blob.currentChapterId
                                 ELSE keys[1]
         IN IF currentChapterId \notin DOMAIN chapters THEN Throw
            ELSE Return([chapters |-> chapters,
                         currentChapterId |-> currentChapterId,
                         currentSceneId |->
                           IF blob.currentSceneId # 0 THEN blob.currentSceneId
                           ELSE chapters[currentChapterId].scenes[1].id])

----------------------------------------------------------------------------
(* The backend merges *)

\* groupScenesByChapter(response.scenes): the flat, chapter-tagged scenes by String(chapterId)
groupScenesByChapter(flat, used) ==
  LET ids == {String(flat[i].chapterId) : i \in 1..Len(flat)}
  IN [id \in ids |->
        LET first == CHOOSE i \in 1..Len(flat) :
                       /\ String(flat[i].chapterId) = id
                       /\ \A j \in 1..(i - 1) : String(flat[j].chapterId) # id
            mine == {i \in 1..Len(flat) : String(flat[i].chapterId) = id}
            \* the position in flat of the k-th scene of this chapter
            at(k) == CHOOSE i \in mine : Cardinality({j \in mine : j < i}) = k - 1
        IN [chapterTitle |-> IF flat[first].chapterTitle # "" THEN flat[first].chapterTitle
                             ELSE ChapterLabel(String(flat[first].chapterId)),
            outline |-> flat[first].chapterOutline,
            scenes |-> [k \in 1..Cardinality(mine) |->
                          normalizeScene(flat[at(k)].scene,
                            IF flat[at(k)].scene.ordering # NoOrdering
                              THEN flat[at(k)].scene.ordering ELSE k - 1,
                            FreshId(used, GeneratedUpTo([i \in 1..Len(flat) |-> flat[i].scene],
                                                         at(k) - 1) + 1))]]]

\* a mutant: a blind replace, the store becomes the backend's chapters
mergeBackendChaptersMutant(store, grouped, used) ==
  [id \in DOMAIN grouped |->
     [chapterTitle |-> grouped[id].chapterTitle,
      outline |-> grouped[id].outline,
      scenes |-> reindexScenes(grouped[id].chapterTitle, Candidates(grouped[id].scenes), used)]]
\* lines 1376-1389 of mergeBackendScenes: the merged chapters map
mergeBackendChapters(store, grouped, used) ==
  [id \in DOMAIN store.chapters \cup DOMAIN grouped |->
     IF id \in DOMAIN grouped
       THEN [chapterTitle |-> grouped[id].chapterTitle,
             outline |-> grouped[id].outline,
             scenes |-> reindexScenes(grouped[id].chapterTitle,
                                      Candidates(grouped[id].scenes), used)]
       ELSE store.chapters[id]]

mergeBackendScenes(store, grouped, used) ==
  LET chapters == mergeBackendChapters(store, grouped, used)
      currentChapterId == IF store.currentChapterId \in DOMAIN chapters
                            THEN store.currentChapterId ELSE ObjectKeys(chapters)[1]
      scenes == chapters[currentChapterId].scenes
  IN [chapters |-> chapters,
      currentChapterId |-> currentChapterId,
      currentSceneId |-> IF Len(scenes) > 0 THEN scenes[1].id ELSE FreshId(used, 1)]

\* a mutant: the existing scenes are dropped, every supplied chapter is seeded afresh
mergeBaseScenesMutant(chapters, id, fresh) ==
  <<Candidate(defaultScene(0, NoTitle, fresh))>>
\* line 1455: existing?.scenes?.length ? existing.scenes : [defaultScene()]
mergeBaseScenes(chapters, id, fresh) ==
  IF id \in DOMAIN chapters /\ Len(chapters[id].scenes) > 0
    THEN Candidates(chapters[id].scenes)
    ELSE <<Candidate(defaultScene(0, NoTitle, fresh))>>

RECURSIVE mergeChapterEntries(_, _, _, _, _)
\* the forEach of lines 1448-1462 from list[p] on; n ids were generated before
mergeChapterEntries(chapters, list, p, used, n) ==
  IF p > Len(list) THEN [chapters |-> chapters, generated |-> n]
  ELSE IF list[p] = None \/ list[p][1].id = None
    THEN mergeChapterEntries(chapters, list, p + 1, used, n)
  ELSE
    LET chapter == list[p][1]
        id == String(chapter.id[1])
        seeded == ~(id \in DOMAIN chapters /\ Len(chapters[id].scenes) > 0)
        existingTitle == IF id \in DOMAIN chapters THEN chapters[id].chapterTitle ELSE ""
        existingOutline == IF id \in DOMAIN chapters THEN chapters[id].outline ELSE ""
        title == IF chapter.title # "" THEN chapter.title ELSE existingTitle
        entry == [chapterTitle |-> IF title # "" THEN title ELSE ChapterLabel(id),
                  outline |-> IF chapter.outline # "" THEN chapter.outline ELSE existingOutline,
                  scenes |-> reindexScenes(title,
                               mergeBaseScenes(chapters, id, FreshId(used, n + 1)), used)]
    IN mergeChapterEntries(Put(chapters, id, entry), list, p + 1, used,
                           IF seeded THEN n + 1 ELSE n)

\* the ids the Set `keep` holds besides "standalone", in insertion order
SuppliedIds(list) ==
  LET withId == SelectSeq(list, LAMBDA c : c # None /\ c[1].id # None)
  IN [i \in 1..Len(withId) |-> String(withId[i][1].id[1])]

\* a mutant: only the first supplied id is kept, the later ones are pruned
mergeKeepMutant(list) ==
  {"standalone"} \cup {SuppliedIds(list)[i] : i \in 1..Len(SuppliedIds(list)) \cap {1}}
\* the Set `keep` of mergeChaptersFromList
mergeKeep(list) == {"standalone"} \cup {SuppliedIds(list)[i] : i \in 1..Len(SuppliedIds(list))}

mergeChaptersFromList(store, list, used) ==
  LET folded == mergeChapterEntries(store.chapters, list, 1, used, 0)
      keep == mergeKeep(list)
      kept == [id \in DOMAIN folded.chapters \cap keep |-> folded.chapters[id]]
      withStandalone ==
        IF "standalone" \in DOMAIN kept THEN kept
        ELSE Put(kept, "standalone",
                 [chapterTitle |-> "Standalone Scenes", outline |-> "",
                  scenes |-> <<defaultScene(0, NoTitle, FreshId(used, folded.generated + 1))>>])
      chapters ==
        Put(withStandalone, "standalone",
            [withStandalone["standalone"] EXCEPT
               !.scenes = reindexScenes(withStandalone["standalone"].chapterTitle,
                                        Candidates(withStandalone["standalone"].scenes), used)])
      fallback == IF Len(SuppliedIds(list)) > 0 THEN SuppliedIds(list)[1] ELSE "standalone"
      currentChapterId == IF store.currentChapterId \in DOMAIN chapters
                            THEN store.currentChapterId ELSE fallback
      scenes == chapters[currentChapterId].scenes
  IN [chapters |-> chapters,
      currentChapterId |-> currentChapterId,
      currentSceneId |-> IF HasScene(scenes, store.currentSceneId)
                           THEN store.currentSceneId ELSE scenes[1].id]

----------------------------------------------------------------------------
(* The handlers of the component, as the updaters they pass to setSceneStore *)

\* currentChapter and currentScenes of a render (lines 133-135)
CurrentChapterOf(store) ==
  IF store.currentChapterId \in DOMAIN store.chapters
    THEN store.chapters[store.currentChapterId] ELSE store.chapters["standalone"]
ActiveSceneId(store) ==
  LET scenes == CurrentChapterOf(store).scenes
  IN IF HasScene(scenes, store.currentSceneId) THEN store.currentSceneId ELSE scenes[1].id

selectChapter(store, chapterId, fresh) ==
  IF chapterId \notin DOMAIN store.chapters
    THEN LET fallbackScene == defaultScene(0, NoTitle, fresh)
         IN [chapters |-> Put(store.chapters, chapterId,
                            [chapterTitle |-> IF IsIntegerId(chapterId) THEN ChapterLabel(chapterId)
                                              ELSE "Standalone Scenes",
                             outline |-> "",
                             scenes |-> <<fallbackScene>>]),
             currentChapterId |-> chapterId,
             currentSceneId |-> fallbackScene.id]
    ELSE [store EXCEPT
            !.currentChapterId = chapterId,
            !.currentSceneId = IF Len(store.chapters[chapterId].scenes) > 0
                                 THEN store.chapters[chapterId].scenes[1].id ELSE fresh]

selectScene(store, sceneId) == [store EXCEPT !.currentSceneId = sceneId]

\* {...scene, ...updater}: the fields the updater holds replace the scene's
Spread(scene, updater) ==
  [Candidate(scene) EXCEPT
     !.title = IF updater.title # None THEN updater.title[1] ELSE @,
     !.text = IF updater.text # None THEN updater.text[1] ELSE @,
     !.notes = IF updater.notes # None THEN updater.notes[1] ELSE @,
     !.type = IF updater.type # None THEN updater.type[1] ELSE @]

updateScene(store, sceneId, updater, used) ==
  IF store.currentChapterId \notin DOMAIN store.chapters THEN store
  ELSE
    LET chapter == store.chapters[store.currentChapterId]
        rawScenes == [i \in 1..Len(chapter.scenes) |->
                        IF chapter.scenes[i].id = sceneId
                          THEN Spread(chapter.scenes[i], updater)
                          ELSE Candidate(chapter.scenes[i])]
    IN [store EXCEPT
          !.chapters = Put(store.chapters, store.currentChapterId,
                           [chapter EXCEPT
                              !.scenes = reindexScenes(chapter.chapterTitle, rawScenes, used)])]

addScene(store, used) ==
  LET chapter == IF store.currentChapterId \in DOMAIN store.chapters
                   THEN store.chapters[store.currentChapterId]
                   ELSE [chapterTitle |-> "Untitled Chapter", outline |-> "", scenes |-> <<>>]
      newScene == defaultScene(Len(chapter.scenes),
                    IF chapter.chapterTitle # ""
                      THEN ChapterSceneN(chapter.chapterTitle, Len(chapter.scenes) + 1)
                      ELSE NoTitle,
                    FreshId(used, 1))
  IN [chapters |-> Put(store.chapters, store.currentChapterId,
                       [chapter EXCEPT
                          !.scenes = reindexScenes(chapter.chapterTitle,
                                       Candidates(Append(chapter.scenes, newScene)), used)]),
      currentChapterId |-> store.currentChapterId,
      currentSceneId |-> newScene.id]

\* a mutant: the last scene of a chapter is removed and nothing takes its place
removeSceneMutant(store, sceneId, used) ==
  IF store.currentChapterId \notin DOMAIN store.chapters THEN store
  ELSE
    LET chapter == store.chapters[store.currentChapterId]
        filtered == SelectSeq(chapter.scenes, LAMBDA scene : scene.id # sceneId)
        scenes == reindexScenes(chapter.chapterTitle, Candidates(filtered), used)
    IN [chapters |-> Put(store.chapters, store.currentChapterId,
                         [chapter EXCEPT !.scenes = scenes]),
        currentChapterId |-> store.currentChapterId,
        currentSceneId |-> IF Len(scenes) > 0 THEN scenes[1].id ELSE store.currentSceneId]
removeScene(store, sceneId, used) ==
  IF store.currentChapterId \notin DOMAIN store.chapters THEN store
  ELSE
    LET chapter == store.chapters[store.currentChapterId]
        filtered == SelectSeq(chapter.scenes, LAMBDA scene : scene.id # sceneId)
        scenes == reindexScenes(chapter.chapterTitle,
                    IF Len(filtered) > 0 THEN Candidates(filtered)
                    ELSE <<Candidate(defaultScene(0, NoTitle, FreshId(used, 1)))>>, used)
    IN [chapters |-> Put(store.chapters, store.currentChapterId,
                         [chapter EXCEPT !.scenes = scenes]),
        currentChapterId |-> store.currentChapterId,
        currentSceneId |-> scenes[1].id]

\* the updater of integrateSeed(seed); seed.chapterId is None or Some(number)
integrateSeed(store, seed, used) ==
  LET chapterId == IF seed.chapterId # None THEN String(seed.chapterId[1]) ELSE "standalone"
      exists == chapterId \in DOMAIN store.chapters
      existingScenes == IF exists THEN store.chapters[chapterId].scenes ELSE <<>>
      existingTitle == IF exists THEN store.chapters[chapterId].chapterTitle ELSE ""
      existingOutline == IF exists THEN store.chapters[chapterId].outline ELSE ""
      baseScene == normalizeScene(
                     [id |-> 0, dbId |-> 0,
                      title |-> IF seed.title # ""
                                  THEN ChapterSceneN(seed.title, Len(existingScenes) + 1)
                                  ELSE NoTitle,
                      type |-> "dialogue", sceneType |-> "", text |-> "", notes |-> "",
                      metadata |-> NoMetadata, ordering |-> NoOrdering],
                     Len(existingScenes), FreshId(used, 1))
      reindexed == reindexScenes(IF seed.title # "" THEN seed.title ELSE existingTitle,
                                 Candidates(Append(existingScenes, baseScene)), used)
  IN [chapters |-> Put(store.chapters, chapterId,
                       [chapterTitle |-> IF seed.title # "" THEN seed.title
                                         ELSE IF existingTitle # "" THEN existingTitle
                                         ELSE "Untitled Chapter",
                        outline |-> IF seed.outline # "" THEN seed.outline ELSE existingOutline,
                        scenes |-> reindexed]),
      currentChapterId |-> chapterId,
      currentSceneId |-> reindexed[Len(reindexed)].id]

\* the updater planScenesFromOutline passes after its await: closure holds the
\* activeChapterId of the render that started the plan, reindexed the planned scenes
planApply(store, closure, reindexed) ==
  LET exists == closure.activeChapterId \in DOMAIN store.chapters
      chapter == IF exists THEN store.chapters[closure.activeChapterId]
                 ELSE [chapterTitle |-> "Untitled Chapter", outline |-> "", scenes |-> <<>>]
  IN [chapters |-> Put(store.chapters, closure.activeChapterId,
                       [chapter EXCEPT !.scenes = reindexed]),
      currentChapterId |-> store.currentChapterId,
      currentSceneId |-> IF Len(reindexed) > 0 THEN reindexed[1].id ELSE store.currentSceneId]

----------------------------------------------------------------------------
(* Values shared by the specifications *)

\* the store variable of an unmounted component
NoStore == [chapters |-> <<>>, currentChapterId |-> "", currentSceneId |-> 0]

\* timers and requests are followed by SpecEffects alone
EnvParked ==
  /\ persistTimerRef = 0 /\ timeouts = {} /\ inflight = {}
  /\ saveScenesCall = None /\ settled = None /\ seedLog = None
  /\ activeProject = "default" /\ quotaExceeded = FALSE /\ storeOwner = ""
  /\ keyWrites = {} /\ userEdit = None
\* the component does not take part in a function-level specification
CompParked ==
  /\ sceneStore = NoStore /\ mounted = FALSE /\ backendEnabled = FALSE
  /\ suppressPersist = FALSE /\ persistTimer = None /\ seedApplied = FALSE
  /\ storeCache = None /\ seedCache = None
  /\ scenesReq = "none" /\ manuscriptReq = "none" /\ plan = None
  /\ scheduledOrigin = "none" /\ lastEdit = None
  /\ EnvParked
\* no function-level operation takes part in the component's specification
FnParked == fnOp = "" /\ fnIn = None /\ fnOut = None

\* every sequence over S of length at most n
SeqsUpTo(S, n) == UNION {[1..k -> S] : k \in 0..n}

\* the ids of backend rows (dbId), apart from every generated id
BackendIds == {101, 102, 103}
DistinctIds(scenes) == \A i, j \in 1..Len(scenes) : scenes[i].id = scenes[j].id => i = j

----------------------------------------------------------------------------
(* SpecReindex: reindexScenes on raw scene lists, then the handlers that pass *)
(* a chapter's scenes through it (addScene, removeScene, mergeChaptersFromList) *)

RawScene(id, dbId, title, ordering) ==
  [id |-> id, dbId |-> dbId, title |-> title, type |-> "", sceneType |-> "",
   text |-> "", notes |-> "", metadata |-> NoMetadata, ordering |-> ordering]

ReindexChapterTitles == {"", "Intro", "Other"}
ReindexTitles ==
  {NoTitle, SceneN(5), ChapterSceneN("Intro", 1), ChapterSceneN("Intro", 2),
   CustomTitle("Duel")}
ReindexScenesSamples ==
  {RawScene(id, 0, title, ordering) :
     id \in {1, 2}, title \in ReindexTitles, ordering \in {NoOrdering, 5}}
  \cup {RawScene(0, 101, CustomTitle("Duel"), 5),
        RawScene(0, 0, NoTitle, NoOrdering)}

ReindexUsed == {1, 2} \cup BackendIds

\* the store whose chapter "7" holds the scenes, current and first selected
OneChapterStore(chapterTitle, scenes) ==
  [chapters |-> Put(<<>>, "7", [chapterTitle |-> chapterTitle, outline |-> "",
                                 scenes |-> scenes]),
   currentChapterId |-> "7",
   currentSceneId |-> scenes[1].id]

ReindexInit ==
  /\ CompParked
  /\ fnOp = ""
  /\ fnIn \in [chapterTitle : ReindexChapterTitles,
                scenes : SeqsUpTo(ReindexScenesSamples, MaxRawScenes)]
  /\ fnOut = None

FnReindex ==
  /\ fnOp = ""
  /\ fnOp' = "reindexScenes"
  /\ fnOut' = reindexScenes(fnIn.chapterTitle, fnIn.scenes, ReindexUsed)
  /\ UNCHANGED <<fnIn, compVars>>

\* the reindexed list is a chapter of the store: titled, non-empty, ids distinct
IsChapterList == fnOp = "reindexScenes" /\ fnIn.chapterTitle # "" /\ Len(fnOut) > 0
                 /\ DistinctIds(fnOut)

FnAddScene ==
  /\ IsChapterList
  /\ Len(fnOut) < MaxRawScenes + 1
  /\ fnOp' = "addScene"
  /\ fnIn' = [chapterTitle |-> fnIn.chapterTitle, scenes |-> Candidates(fnOut)]
  /\ fnOut' = addScene(OneChapterStore(fnIn.chapterTitle, fnOut),
                       ReindexUsed).chapters["7"].scenes
  /\ UNCHANGED compVars

FnRemoveScene ==
  /\ IsChapterList
  /\ \E i \in 1..Len(fnOut) :
       fnOut' = removeScene(OneChapterStore(fnIn.chapterTitle, fnOut), fnOut[i].id,
                            ReindexUsed).chapters["7"].scenes
  /\ fnOp' = "removeScene"
  /\ fnIn' = [chapterTitle |-> fnIn.chapterTitle, scenes |-> Candidates(fnOut)]
  /\ UNCHANGED compVars

\* the manuscript chapter 7 arrives under another title
FnRetitle ==
  /\ IsChapterList
  /\ \E title \in ReindexChapterTitles \ {""} :
       /\ fnIn' = [chapterTitle |-> title, scenes |-> Candidates(fnOut)]
       /\ fnOut' = mergeChaptersFromList(OneChapterStore(fnIn.chapterTitle, fnOut),
                      <<Some([id |-> Some(7), title |-> title, outline |-> ""])>>,
                      ReindexUsed).chapters["7"].scenes
  /\ fnOp' = "mergeChaptersFromList"
  /\ UNCHANGED compVars

ReindexNext == FnReindex \/ FnAddScene \/ FnRemoveScene \/ FnRetitle
SpecReindex == ReindexInit /\ [][ReindexNext]_vars

\* the id reindexScenes gives a candidate that carries one (0: it generates one)
CarriedId(candidate) == IF candidate.id # 0 THEN candidate.id ELSE candidate.dbId

\* C9: whatever chapter title and scene list reindexScenes is given, the list it
\* returns has the same length and the same ids in the same order, and the scene
\* at array position i has ordering i; the lists addScene, removeScene and
\* mergeChaptersFromList leave behind are dense in the same way.
C9_ReindexDenseOrdering ==
  fnOp # "" =>
    /\ \A i \in 1..Len(fnOut) : fnOut[i].ordering = i - 1
    /\ fnOp = "reindexScenes" =>
         /\ Len(fnOut) = Len(fnIn.scenes)
         /\ \A i \in 1..Len(fnOut) :
              CarriedId(fnIn.scenes[i]) # 0 => fnOut[i].id = CarriedId(fnIn.scenes[i])

\* C9 witness: two candidates, the first carrying ordering 5, were reindexed
C9_Witness ==
  /\ fnOp = "reindexScenes"
  /\ Len(fnIn.scenes) >= 2
  /\ fnIn.scenes[1].ordering = 5
  /\ fnIn.scenes[1].id = 2 /\ fnIn.scenes[2].id = 1

\* the title is neither empty, nor `Scene <n>`, nor `<chapterTitle> – Scene <n>`
IsManualTitle(title, chapterTitle) ==
  /\ title # NoTitle
  /\ ~MatchesBareScene(title)
  /\ ~(title[1] = "ChapterScene" /\ title[2] = chapterTitle)

\* C10: a scene whose title is manual keeps exactly that title through
\* reindexScenes at its array position, and through addScene, removeScene and
\* mergeChaptersFromList wherever the scene ends up.
C10_ManualTitleKept ==
  /\ fnOp = "reindexScenes" =>
       \A i \in 1..Len(fnIn.scenes) :
         IsManualTitle(fnIn.scenes[i].title, fnIn.chapterTitle)
           => fnOut[i].title = fnIn.scenes[i].title
  /\ fnOp \in {"addScene", "removeScene", "mergeChaptersFromList"} =>
       \A i \in 1..Len(fnIn.scenes) : \A j \in 1..Len(fnOut) :
         /\ IsManualTitle(fnIn.scenes[i].title, fnIn.chapterTitle)
         /\ fnOut[j].id = fnIn.scenes[i].id
         => fnOut[j].title = fnIn.scenes[i].title

\* C10 witness: removeScene moved a manually titled scene from position 1 to 0
C10_Witness ==
  /\ fnOp = "removeScene"
  /\ Len(fnIn.scenes) = 2 /\ Len(fnOut) = 1
  /\ fnIn.scenes[2].title = CustomTitle("Duel")
  /\ fnOut[1].id = fnIn.scenes[2].id

\* C11: a scene that carries the chapter-prefixed default title of its old
\* position (`<chapterTitle> – Scene k`) and stands at array position j after
\* addScene or removeScene is titled `<chapterTitle> – Scene j+1`.
C11_AutoTitleTracksPosition ==
  fnOp \in {"addScene", "removeScene"} =>
    \A i \in 1..Len(fnIn.scenes) : \A j \in 1..Len(fnOut) :
      /\ fnIn.chapterTitle # ""
      /\ fnIn.scenes[i].title = ChapterSceneN(fnIn.chapterTitle, i)
      /\ fnIn.scenes[i].id # 0
      /\ fnOut[j].id = fnIn.scenes[i].id
      => fnOut[j].title = ChapterSceneN(fnIn.chapterTitle, j)

----------------------------------------------------------------------------
(* SpecNormalize: normalizeStore on deserialized blobs, well-formed or not *)

NormalizeChapterIds == {"7", "standalone"}
NormalizeSceneEntries ==
  {None,
   Some(RawScene(1, 0, CustomTitle("Duel"), NoOrdering)),
   Some(RawScene(2, 0, NoTitle, 5))}
\* a chapter entry: null, or an object whose scenes are missing or an array
NormalizeChapterEntries ==
  {None} \cup
  {Some([chapterTitle |-> title, outline |-> "", scenes |-> scenes]) :
     title \in {"", "Intro"},
     scenes \in {None} \cup {Some(list) : list \in SeqsUpTo(NormalizeSceneEntries, MaxRawScenes)}}
NormalizeChapterMaps ==
  UNION {[ids -> NormalizeChapterEntries] : ids \in SUBSET NormalizeChapterIds}
\* null, a string, an array, and objects without or with a chapters map;
\* currentChapterId "8" and currentSceneId 9 name nothing
NormalizeBlobs ==
  {[kind |-> "null"], [kind |-> "string"], [kind |-> "array"]} \cup
  {[kind |-> "object", chapters |-> chapters,
    currentChapterId |-> currentChapterId, currentSceneId |-> currentSceneId] :
     chapters \in {None} \cup {Some(map) : map \in NormalizeChapterMaps},
     currentChapterId \in {"", "7", "8", "standalone"},
     currentSceneId \in {0, 1, 9}}

NormalizeInit ==
  /\ CompParked
  /\ fnOp = ""
  /\ fnIn \in NormalizeBlobs
  /\ fnOut = None

FnNormalizeStore ==
  /\ fnOp = ""
  /\ fnOp' = "normalizeStore"
  /\ fnOut' = normalizeStore(fnIn, BlobSceneIds(fnIn))
  /\ UNCHANGED <<fnIn, compVars>>

NormalizeNext == FnNormalizeStore
SpecNormalize == NormalizeInit /\ [][NormalizeNext]_vars

\* the store invariants of the data model
HasStandalone(store) == "standalone" \in DOMAIN store.chapters
PointersResolve(store) ==
  /\ store.currentChapterId \in DOMAIN store.chapters
  /\ HasScene(store.chapters[store.currentChapterId].scenes, store.currentSceneId)

\* C4: normalizeStore never throws: for every input it returns a store.
C4_NormalizeStoreTotal == fnOp = "normalizeStore" => ~fnOut.threw

\* C5: every store normalizeStore returns has a "standalone" chapter, a
\* currentChapterId that is a key of chapters and a currentSceneId that is the id
\* of a scene of the current chapter.
C5_NormalizedStoreValid ==
  (fnOp = "normalizeStore" /\ ~fnOut.threw) =>
    HasStandalone(fnOut.value[1]) /\ PointersResolve(fnOut.value[1])

----------------------------------------------------------------------------
(* Stores and responses for the function-level specifications of the merges *)

\* the k-th scene of a sample chapter: generated titles and empty text, or a
\* manual title with text and notes
SampleScene(chapterId, chapterTitle, k, manual) ==
  [id |-> (CASE chapterId = "7" -> 10 [] chapterId = "8" -> 20 [] OTHER -> 30) + k,
   title |-> IF manual THEN CustomTitle("Duel") ELSE ChapterSceneN(chapterTitle, k),
   type |-> "dialogue",
   text |-> IF manual THEN "draft" ELSE "",
   notes |-> IF manual THEN "memo" ELSE "",
   metadata |-> EmptyObject,
   ordering |-> k - 1]
SampleTitle(chapterId) ==
  CASE chapterId = "7" -> "Intro" [] chapterId = "8" -> "Chapter 8" [] OTHER -> "Standalone Scenes"
\* the entries a chapter id may have: "standalone" always holds a scene, a
\* manuscript chapter's list may be empty
SampleEntries(chapterId) ==
  {[chapterTitle |-> SampleTitle(chapterId), outline |-> "",
    scenes |-> [k \in 1..n |-> SampleScene(chapterId, SampleTitle(chapterId), k, manual)]] :
     n \in (IF chapterId = "standalone" THEN 1 ELSE 0)..MaxRawScenes, manual \in BOOLEAN}
SampleChapterMaps ==
  UNION {{map \in [ids -> UNION {SampleEntries(id) : id \in ids}] :
            \A id \in ids : map[id] \in SampleEntries(id)} : ids \in SUBSET ChapterIds}
\* currentSceneId 99 names no scene
SampleStores ==
  {[chapters |-> map, currentChapterId |-> currentChapterId,
    currentSceneId |-> currentSceneId] :
     map \in SampleChapterMaps, currentChapterId \in ChapterIds, currentSceneId \in {11, 99}}
SampleUsed == {10 + k : k \in 1..(MaxRawScenes + 1)} \cup {20 + k : k \in 1..(MaxRawScenes + 1)}
              \cup {30 + k : k \in 1..(MaxRawScenes + 1)} \cup {99} \cup BackendIds

\* a manuscript chapter as a merge reads it; id is None when the chapter has none
ManuscriptChapter(id, title, outline) == [id |-> id, title |-> title, outline |-> outline]
\* entries of a manuscript list: null, chapters with ids, and one without
ManuscriptEntries ==
  {None,
   Some(ManuscriptChapter(Some(7), "Intro", "o")),
   Some(ManuscriptChapter(Some(7), "", "")),
   Some(ManuscriptChapter(Some(8), "Other", "")),
   Some(ManuscriptChapter(None, "Lost", ""))}
ManuscriptLists == SeqsUpTo(ManuscriptEntries, 2)

\* rows of a loadScenes response
BackendScene(chapterId, chapterTitle, scene) ==
  [chapterId |-> chapterId, chapterTitle |-> chapterTitle, chapterOutline |-> "",
   scene |-> scene]
BackendRows ==
  {BackendScene(7, "Intro", [RawScene(0, 101, CustomTitle("Remote"), 0) EXCEPT
                               !.text = "remote", !.sceneType = "action"]),
   BackendScene(7, "", RawScene(0, 102, NoTitle, NoOrdering)),
   BackendScene(8, "", RawScene(0, 103, SceneN(1), 5))}
\* a response the loadScenes effect merges holds at least one row (line 200)
BackendResponses == SeqsUpTo(BackendRows, MaxRawScenes) \ {<<>>}

----------------------------------------------------------------------------
(* SpecMergeChapters: mergeChaptersFromList on stores and manuscript lists *)

MergeChaptersInit ==
  /\ CompParked
  /\ fnOp = ""
  /\ fnIn \in [store : SampleStores, chapters : ManuscriptLists]
  /\ fnOut = None

FnMergeChaptersFromList ==
  /\ fnOp = ""
  /\ fnOp' = "mergeChaptersFromList"
  /\ fnOut' = mergeChaptersFromList(fnIn.store, fnIn.chapters, SampleUsed)
  /\ UNCHANGED <<fnIn, compVars>>

MergeChaptersNext == FnMergeChaptersFromList
SpecMergeChapters == MergeChaptersInit /\ [][MergeChaptersNext]_vars

\* String(id) of every chapter of the list that has an id
SuppliedKeys(list) ==
  {String(list[i][1].id[1]) : i \in {j \in 1..Len(list) : list[j] # None /\ list[j][1].id # None}}

\* C6: after mergeChaptersFromList(store, chapters) the keys of the result's
\* chapters are exactly "standalone" and String(id) of every supplied chapter
\* that has an id.
C6_MergeChaptersKeys ==
  fnOp = "mergeChaptersFromList" =>
    DOMAIN fnOut.chapters = {"standalone"} \cup SuppliedKeys(fnIn.chapters)

\* C6 witness: the store held chapter 8 and no "standalone", the list supplied
\* chapter 7 only
C6_Witness ==
  /\ fnOp = "mergeChaptersFromList"
  /\ DOMAIN fnIn.store.chapters = {"7", "8"}
  /\ SuppliedKeys(fnIn.chapters) = {"7"}
  /\ DOMAIN fnOut.chapters = {"7", "standalone"}

\* C7: a supplied chapter whose entry holds scenes keeps them (same count, same
\* ids in the same order, same text and notes); a supplied chapter with no entry
\* or an empty scene list gets exactly one default scene.
C7_MergeChaptersScenes ==
  fnOp = "mergeChaptersFromList" =>
    \A id \in SuppliedKeys(fnIn.chapters) :
      LET after == fnOut.chapters[id].scenes
      IN IF id \in DOMAIN fnIn.store.chapters /\ Len(fnIn.store.chapters[id].scenes) > 0
           THEN LET before == fnIn.store.chapters[id].scenes
                IN /\ Len(after) = Len(before)
                   /\ \A i \in 1..Len(before) :
                        /\ after[i].id = before[i].id
                        /\ after[i].text = before[i].text
                        /\ after[i].notes = before[i].notes
           ELSE /\ Len(after) = 1
                /\ after[1].id \notin StoreSceneIds(fnIn.store.chapters)
                /\ after[1].text = "" /\ after[1].notes = ""
                /\ after[1].type = "dialogue"

\* C7 witness: chapter 7 was supplied with two written scenes in the store,
\* chapter 8 was supplied without an entry
C7_Witness ==
  /\ fnOp = "mergeChaptersFromList"
  /\ SuppliedKeys(fnIn.chapters) = {"7", "8"}
  /\ "7" \in DOMAIN fnIn.store.chapters /\ "8" \notin DOMAIN fnIn.store.chapters
  /\ Len(fnIn.store.chapters["7"].scenes) = 2
  /\ fnIn.store.chapters["7"].scenes[2].text = "draft"
  /\ Len(fnOut.chapters["8"].scenes) = 1

----------------------------------------------------------------------------
(* SpecMergeBackend: mergeBackendScenes on stores and loadScenes responses *)

MergeBackendInit ==
  /\ CompParked
  /\ fnOp = ""
  /\ fnIn \in [store : SampleStores, scenes : BackendResponses]
  /\ fnOut = None

FnMergeBackendScenes ==
  /\ fnOp = ""
  /\ fnOp' = "mergeBackendScenes"
  /\ fnOut' = mergeBackendScenes(fnIn.store,
                                 groupScenesByChapter(fnIn.scenes, SampleUsed), SampleUsed)
  /\ UNCHANGED <<fnIn, compVars>>

MergeBackendNext == FnMergeBackendScenes
SpecMergeBackend == MergeBackendInit /\ [][MergeBackendNext]_vars

\* the rows of a response that belong to a chapter, in order
RowsOf(flat, id) == SelectSeq(flat, LAMBDA row : String(row.chapterId) = id)
GroupedKeys(flat) == {String(flat[i].chapterId) : i \in 1..Len(flat)}

\* C8: mergeBackendScenes replaces the scenes of exactly the chapters that are
\* keys of grouped (by the backend's rows, in order) and leaves every other
\* chapter entry of the store present and unchanged; it deletes no chapter.
C8_MergeBackendFrame ==
  fnOp = "mergeBackendScenes" =>
    /\ DOMAIN fnOut.chapters = DOMAIN fnIn.store.chapters \cup GroupedKeys(fnIn.scenes)
    /\ \A id \in DOMAIN fnIn.store.chapters \ GroupedKeys(fnIn.scenes) :
         fnOut.chapters[id] = fnIn.store.chapters[id]
    /\ \A id \in GroupedKeys(fnIn.scenes) :
         /\ Len(fnOut.chapters[id].scenes) = Len(RowsOf(fnIn.scenes, id))
         /\ \A i \in 1..Len(RowsOf(fnIn.scenes, id)) :
              /\ fnOut.chapters[id].scenes[i].id = RowsOf(fnIn.scenes, id)[i].scene.dbId
              /\ fnOut.chapters[id].scenes[i].text = RowsOf(fnIn.scenes, id)[i].scene.text

\* C8 witness: the store held "standalone", 7 and the local chapter 8 with
\* written scenes, the response held rows of chapter 7 only
C8_Witness ==
  /\ fnOp = "mergeBackendScenes"
  /\ DOMAIN fnIn.store.chapters = {"7", "8", "standalone"}
  /\ GroupedKeys(fnIn.scenes) = {"7"}
  /\ Len(fnIn.store.chapters["8"].scenes) = 2
  /\ fnIn.store.chapters["8"].scenes[1].text = "draft"
  /\ fnIn.store.chapters["7"].scenes # fnOut.chapters["7"].scenes

----------------------------------------------------------------------------
(* Spec: the mounted component, its effects, its handlers and the responses *)
(* of the requests it issued                                                *)

\* the ids a store mentions, with the backend's: a generated id is none of them
UsedBy(store) == StoreSceneIds(store.chapters) \cup {store.currentSceneId} \cup BackendIds
UsedIds == UsedBy(sceneStore) \cup (IF lastEdit = None THEN {} ELSE {lastEdit[1].sceneId})

\* what produced a store: the origins that apply cached or remote data
AppliedOrigins == {"cache", "backendScenes", "manuscript", "seed"}

\* the seed ManuscriptManager.openInSceneBuilder writes for a chapter
Seed(chapterId, title, outline) == [chapterId |-> chapterId, title |-> title, outline |-> outline]
Seeds == {Seed(Some(7), "Intro", "o")}
\* what loadManuscript resolves with (response?.chapters || [])
ManuscriptResponses ==
  {<<>>,
   <<Some(ManuscriptChapter(Some(7), "Intro", "o"))>>}
\* localStorage[manuscript_chapters_<project>] when the component mounts
LocalManuscripts == {None} \cup {Some(list) : list \in ManuscriptResponses}
\* what loadScenes resolves with (response.scenes)
LoadScenesResponses ==
  {<<>>,
   <<BackendScene(7, "Intro", [RawScene(0, 101, CustomTitle("Remote"), 0) EXCEPT
                                 !.text = "remote", !.sceneType = "action"])>>}
\* the updater objects the editor passes to updateScene
Updaters ==
  {[title |-> None, text |-> Some("draft"), notes |-> None, type |-> None]}
\* a scene of the planner's response as line 729 maps it: no id, `Scene ${index + 1}`
PlannedScene(index) ==
  [RawScene(0, 0, SceneN(index + 1), NoOrdering) EXCEPT !.type = "dialogue", !.text = "plan"]

\* Number(chapterId) of a key of chapters
NaN == 0 - 1
Number(chapterId) ==
  CASE chapterId = "7" -> 7 [] chapterId = "8" -> 8 [] OTHER -> NaN
RECURSIVE payloadFrom(_, _, _)
\* the forEach of lines 332-346 from keys[p] on
payloadFrom(store, keys, p) ==
  IF p > Len(keys) THEN <<>>
  ELSE LET scenes == store.chapters[keys[p]].scenes
       IN (IF IsIntegerId(keys[p])
             THEN [i \in 1..Len(scenes) |->
                     [chapterId |-> Number(keys[p]), title |-> scenes[i].title,
                      sceneType |-> scenes[i].type, text |-> scenes[i].text,
                      notes |-> scenes[i].notes, ordering |-> i - 1,
                      metadata |-> scenes[i].metadata]]
             ELSE <<>>) \o payloadFrom(store, keys, p + 1)
\* the payload persistScenesToBackend(store) hands to saveScenes
persistPayload(store) == payloadFrom(store, ObjectKeys(store.chapters), 1)

\* Generated ids (`scene-${Date.now()}-${Math.random()}`) are compared for
\* equality only. Every state is kept in the representative where the generated
\* ids are 1, 2, ... in order of appearance: chapters in key order, scenes in
\* list order, then currentSceneId, then the noted edit.
RECURSIVE idsFrom(_, _, _)
idsFrom(store, keys, p) ==
  IF p > Len(keys) THEN <<>>
  ELSE [i \in 1..Len(store.chapters[keys[p]].scenes) |-> store.chapters[keys[p]].scenes[i].id]
       \o idsFrom(store, keys, p + 1)
IdsInOrder(store, edit) ==
  idsFrom(store, ObjectKeys(store.chapters), 1) \o <<store.currentSceneId>>
  \o (IF edit = None THEN <<>> ELSE <<edit[1].sceneId>>)
CanonId(ids, id) ==
  IF id \in BackendIds \cup {0} THEN id
  ELSE LET first == CHOOSE p \in 1..Len(ids) :
                      ids[p] = id /\ \A q \in 1..(p - 1) : ids[q] # id
       IN Cardinality({ids[q] : q \in 1..(first - 1)} \ (BackendIds \cup {0})) + 1
CanonStore(store, ids) ==
  [chapters |->
     [id \in DOMAIN store.chapters |->
        [chapterTitle |-> store.chapters[id].chapterTitle,
         outline |-> store.chapters[id].outline,
         scenes |-> [i \in 1..Len(store.chapters[id].scenes) |->
                       [store.chapters[id].scenes[i] EXCEPT !.id = CanonId(ids, @)]]]],
   currentChapterId |-> store.currentChapterId,
   currentSceneId |-> CanonId(ids, store.currentSceneId)]
CanonEdit(edit, ids) ==
  IF edit = None THEN None ELSE Some([edit[1] EXCEPT !.sceneId = CanonId(ids, @)])

\* the render after setSceneStore(store) and the persist effect it triggers
\* (lines 160-170); suppress is suppressPersistRef.current when the effect runs,
\* edit the edit to remember. The timer keeps the payload of the store it captured.
Commit(store, origin, suppress, edit) ==
  \E ids \in {IdsInOrder(store, edit)} :
    \E canon \in {CanonStore(store, ids)} :
      /\ sceneStore' = canon
      /\ lastEdit' = CanonEdit(edit, ids)
      /\ storeCache' = Some(StoreBlob(canon))
      /\ IF backendEnabled /\ ~suppress
           THEN persistTimer' = Some(persistPayload(store)) /\ scheduledOrigin' = origin
           ELSE UNCHANGED <<persistTimer, scheduledOrigin>>
      /\ suppressPersist' = FALSE

\* a user edit made while loadScenes is in flight is remembered until the
\* render that follows the response
NoteEdit(edit) == IF scenesReq = "pending" THEN Some(edit) ELSE None
KeptEdit == IF scenesReq = "pending" THEN lastEdit ELSE None
\* the edit shows in the store
EditPresent(store, edit) ==
  /\ edit.chapterId \in DOMAIN store.chapters
  /\ LET scenes == store.chapters[edit.chapterId].scenes
     IN CASE edit.kind = "update" ->
               \E i \in 1..Len(scenes) :
                 scenes[i].id = edit.sceneId /\ scenes[i].text = edit.text
          [] edit.kind = "add" -> HasScene(scenes, edit.sceneId)
          [] OTHER -> ~HasScene(scenes, edit.sceneId)

Init ==
  /\ FnParked
  /\ sceneStore = NoStore /\ mounted = FALSE /\ backendEnabled \in BOOLEAN
  /\ suppressPersist = FALSE /\ persistTimer = None /\ seedApplied = FALSE
  /\ storeCache = None /\ seedCache = None
  /\ scenesReq = "none" /\ manuscriptReq = "none" /\ plan = None
  /\ scheduledOrigin = "none" /\ lastEdit = None
  /\ EnvParked

\* ManuscriptManager.openInSceneBuilder on another route; the seeded chapter has
\* room for the scene the seed will add
OpenInSceneBuilder ==
  /\ ~mounted
  /\ \E seed \in Seeds :
       LET chapterId == IF seed.chapterId # None THEN String(seed.chapterId[1]) ELSE "standalone"
       IN /\ IF storeCache = None THEN TRUE
             ELSE IF chapterId \notin DOMAIN storeCache[1].chapters[1] THEN TRUE
             ELSE Len(storeCache[1].chapters[1][chapterId][1].scenes[1]) < MaxScenes
                  /\ Cardinality(BlobSceneIds(storeCache[1]) \ {0, storeCache[1].currentSceneId})
                       < MaxStoreScenes
          /\ seedCache' = Some(seed)
  /\ UNCHANGED <<sceneStore, mounted, backendEnabled, suppressPersist, persistTimer,
                 seedApplied, storeCache, scenesReq, manuscriptReq, plan, scheduledOrigin,
                 lastEdit, fnVars, envVars>>

\* the first render and its effects in declaration order, then the render of
\* the updates they queued and the persist effect of that render
Mount ==
  /\ ~mounted
  /\ \E local \in LocalManuscripts :
     \E usedCache \in {(IF storeCache = None THEN {} ELSE BlobSceneIds(storeCache[1]))
                        \cup BackendIds} :
     \* useState initializer (lines 95-108)
     \E read \in {IF storeCache # None /\ storeCache[1].chapters # None
                     THEN normalizeStore(storeCache[1], usedCache) ELSE Throw} :
     \E initial \in {IF read.threw THEN createDefaultStore(FreshId(usedCache, 1))
                      ELSE read.value[1]} :
     \* cache-load effect (lines 172-190) reads what the persist effect wrote
     \E reread \in {normalizeStore(StoreBlob(initial), UsedBy(initial))} :
     \E loaded \in {IF reread.threw THEN initial ELSE reread.value[1]} :
     \* loadManuscript effect without a backend (lines 229-239)
     \E listed \in {IF ~backendEnabled /\ local # None
                      THEN mergeChaptersFromList(loaded, local[1], UsedBy(loaded))
                      ELSE loaded} :
     \* seed effect (lines 308-320)
     \E final \in {IF seedCache # None
                     THEN integrateSeed(listed, seedCache[1], UsedBy(listed))
                     ELSE listed} :
     \E canon \in {CanonStore(final, IdsInOrder(final, None))} :
       /\ mounted' = TRUE
       /\ sceneStore' = canon
       /\ storeCache' = Some(StoreBlob(canon))
       \* persist effect of the first render: suppressPersistRef is still false
       /\ persistTimer' = IF backendEnabled THEN Some(persistPayload(initial)) ELSE None
       /\ scheduledOrigin' = IF ~backendEnabled THEN "none"
                             ELSE IF read.threw THEN "default" ELSE "cache"
       /\ suppressPersist' = FALSE
       /\ seedApplied' = (seedCache # None)
       /\ seedCache' = None
       /\ scenesReq' = IF backendEnabled THEN "pending" ELSE "none"
       /\ manuscriptReq' = IF backendEnabled THEN "pending" ELSE "none"
  /\ UNCHANGED <<backendEnabled, plan, lastEdit, fnVars, envVars>>

\* the cleanups of the effects: the requests are cancelled, the timer is cleared
Unmount ==
  /\ mounted
  /\ mounted' = FALSE
  /\ sceneStore' = NoStore
  /\ suppressPersist' = FALSE /\ persistTimer' = None /\ seedApplied' = FALSE
  /\ scenesReq' = "none" /\ manuscriptReq' = "none" /\ plan' = None
  /\ scheduledOrigin' = "none" /\ lastEdit' = None
  /\ UNCHANGED <<backendEnabled, storeCache, seedCache, fnVars, envVars>>

\* loadScenes resolves (lines 197-202) with rows, with none, or rejects
ScenesResponse ==
  /\ mounted /\ scenesReq = "pending"
  /\ scenesReq' = "done"
  /\ \/ \E scenes \in LoadScenesResponses :
          \E grouped \in {groupScenesByChapter(scenes, UsedIds)} :
            IF DOMAIN grouped = {}
              THEN UNCHANGED <<sceneStore, storeCache, persistTimer, scheduledOrigin,
                               suppressPersist, lastEdit>>
              ELSE \E merged \in {mergeBackendScenes(sceneStore, grouped, UsedIds)} :
                     Commit(merged, "backendScenes", TRUE, lastEdit)
     \/ UNCHANGED <<sceneStore, storeCache, persistTimer, scheduledOrigin,
                    suppressPersist, lastEdit>>
  /\ UNCHANGED <<mounted, backendEnabled, seedApplied, seedCache, manuscriptReq, plan, fnVars, envVars>>

\* loadManuscript resolves (lines 224-227, applyChapters) or rejects
ManuscriptResponse ==
  /\ mounted /\ manuscriptReq = "pending"
  /\ manuscriptReq' = "done"
  /\ \/ \E chapters \in ManuscriptResponses :
          \E merged \in {mergeChaptersFromList(sceneStore, chapters, UsedIds)} :
            Commit(merged, "manuscript", TRUE, KeptEdit)
     \/ UNCHANGED <<sceneStore, storeCache, persistTimer, scheduledOrigin,
                    suppressPersist, lastEdit>>
  /\ UNCHANGED <<mounted, backendEnabled, seedApplied, seedCache, scenesReq, plan, fnVars, envVars>>

\* the 800 ms timer fires: persistScenesToBackend(store) (lines 327, 330-352)
TimerFire ==
  /\ mounted /\ persistTimer # None
  /\ persistTimer' = None
  /\ scheduledOrigin' = "none"
  /\ UNCHANGED <<sceneStore, mounted, backendEnabled, suppressPersist, seedApplied,
                 storeCache, seedCache, scenesReq, manuscriptReq, plan, lastEdit, fnVars, envVars>>

Untouched == <<mounted, backendEnabled, seedApplied, seedCache, scenesReq, manuscriptReq,
               plan, fnVars, envVars>>

\* the chapter <select> (line 918) offers the keys of sceneStore.chapters
SelectChapter ==
  /\ mounted
  /\ \E chapterId \in DOMAIN sceneStore.chapters :
       \E store \in {selectChapter(sceneStore, chapterId, FreshId(UsedIds, 1))} :
         Commit(store, "user", suppressPersist, KeptEdit)
  /\ UNCHANGED Untouched

\* a click on a scene of the list (line 958)
SelectScene ==
  /\ mounted
  /\ \E sceneId \in SceneIds(CurrentChapterOf(sceneStore).scenes) :
       \E store \in {selectScene(sceneStore, sceneId)} :
         Commit(store, "user", suppressPersist, KeptEdit)
  /\ UNCHANGED Untouched

\* the editor of the active scene (lines 980-1014)
UpdateScene ==
  /\ mounted
  /\ sceneStore.currentChapterId \in DOMAIN sceneStore.chapters
  /\ \E updater \in Updaters :
     \E sceneId \in {ActiveSceneId(sceneStore)} :
     \E store \in {updateScene(sceneStore, sceneId, updater, UsedIds)} :
     \E edited \in {i \in 1..Len(store.chapters[store.currentChapterId].scenes) :
                      store.chapters[store.currentChapterId].scenes[i].id = sceneId} :
     \E edit \in {NoteEdit([kind |-> "update", chapterId |-> store.currentChapterId,
                            sceneId |-> sceneId,
                            text |-> store.chapters[store.currentChapterId].scenes[edited].text])} :
       Commit(store, "user", suppressPersist, edit)
  /\ UNCHANGED Untouched

\* Add Scene (lines 947, 1063), while the chapter has room
AddScene ==
  /\ mounted
  /\ Len(CurrentChapterOf(sceneStore).scenes) < MaxScenes
  /\ Cardinality(StoreSceneIds(sceneStore.chapters)) < MaxStoreScenes
  /\ \E store \in {addScene(sceneStore, UsedIds)} :
     \E edit \in {NoteEdit([kind |-> "add", chapterId |-> store.currentChapterId,
                            sceneId |-> store.currentSceneId, text |-> ""])} :
       Commit(store, "user", suppressPersist, edit)
  /\ UNCHANGED Untouched

\* Remove of the active scene (line 1053)
RemoveScene ==
  /\ mounted
  /\ sceneStore.currentChapterId \in DOMAIN sceneStore.chapters
  /\ \E sceneId \in {ActiveSceneId(sceneStore)} :
     \E store \in {removeScene(sceneStore, sceneId, UsedIds \cup {sceneId})} :
     \E edit \in {NoteEdit([kind |-> "remove", chapterId |-> sceneStore.currentChapterId,
                            sceneId |-> sceneId, text |-> ""])} :
       Commit(store, "user", suppressPersist, edit)
  /\ UNCHANGED Untouched

\* planScenesFromOutline up to its await (lines 662-683): the closure keeps the
\* activeChapterId and the chapter title of this render
StartPlan ==
  /\ mounted /\ plan = None
  /\ CurrentChapterOf(sceneStore).outline # ""
  /\ plan' = Some([activeChapterId |-> sceneStore.currentChapterId,
                   chapterTitle |-> CurrentChapterOf(sceneStore).chapterTitle])
  /\ UNCHANGED <<sceneStore, mounted, backendEnabled, suppressPersist, persistTimer,
                 seedApplied, storeCache, seedCache, scenesReq, manuscriptReq, scheduledOrigin,
                 lastEdit, fnVars, envVars>>

\* the planner resolves with one scene (lines 692-773), or the call fails (786)
PlanResponse ==
  /\ mounted /\ plan # None
  /\ plan' = None
  /\ \/ \E reindexed \in {reindexScenes(plan[1].chapterTitle, <<PlannedScene(0)>>, UsedIds)} :
        \E store \in {planApply(sceneStore, plan[1], reindexed)} :
          Commit(store, "plan", suppressPersist, KeptEdit)
     \/ UNCHANGED <<sceneStore, storeCache, persistTimer, scheduledOrigin,
                    suppressPersist, lastEdit>>
  /\ UNCHANGED <<mounted, backendEnabled, seedApplied, seedCache, scenesReq, manuscriptReq,
                 fnVars, envVars>>

Next ==
  \/ OpenInSceneBuilder
  \/ Mount
  \/ Unmount
  \/ ScenesResponse
  \/ ManuscriptResponse
  \/ TimerFire
  \/ SelectChapter
  \/ SelectScene
  \/ UpdateScene
  \/ AddScene
  \/ RemoveScene
  \/ StartPlan
  \/ PlanResponse

Spec == Init /\ [][Next]_vars

\* C1: an edit of a scene made while loadScenes is in flight, and present when
\* the response arrives, is still present after the response was applied
\* through mergeBackendScenes.
C1_EditSurvivesLoadScenes ==
  [][(/\ scenesReq = "pending" /\ scenesReq' = "done"
      /\ lastEdit # None
      /\ EditPresent(sceneStore, lastEdit[1]))
       => (lastEdit' # None /\ EditPresent(sceneStore', lastEdit'[1]))]_vars

\* C2: no store produced by applying cached or remote data (cache load,
\* mergeBackendScenes, mergeChaptersFromList, seed integration) is held by the
\* timer of scheduleBackendPersist.
C2_AppliedStateNotScheduled == scheduledOrigin \notin AppliedOrigins

\* C3: while the component is mounted, currentChapterId is a key of chapters
\* and currentSceneId is the id of a scene of chapters[currentChapterId].
C3_PointersResolve == mounted => PointersResolve(sceneStore)

----------------------------------------------------------------------------
(* SpecStore: the store values the component's store-producing functions
   yield, from createDefaultStore through every handler and merge *)

\* the chapter ids selectChapter is called with: present or missing
StoreChapterIds == {"7", "standalone"}

StoreInit ==
  /\ CompParked
  /\ fnOp = ""
  /\ fnIn = None
  /\ fnOut = None

\* what an operation of the store leaves behind; fnIn keeps what the operation
\* was given where a property asks for it
StoreYieldFrom(op, store, given) ==
  /\ fnOp' = op
  /\ fnOut' = CanonStore(store, IdsInOrder(store, None))
  /\ fnIn' = given
  /\ UNCHANGED compVars
StoreYield(op, store) == StoreYieldFrom(op, store, None)

\* cached stores with a chapter that has no scenes: an empty array, no array
StoreCachedBlobs ==
  {[kind |-> "object",
    chapters |-> Some([id \in {"7", "standalone"} |->
      Some([chapterTitle |-> IF id = "7" THEN "Intro" ELSE "Standalone Scenes",
            outline |-> "",
            scenes |-> IF id = "7" THEN scenes
                       ELSE Some(<<Some(Candidate(defaultScene(0, NoTitle, 1)))>>)])]),
    currentChapterId |-> "7",
    currentSceneId |-> 0] : scenes \in {None, Some(<<>>)}}

\* the useState initializer on a cached store (lines 95-105)
StoreLoadCached ==
  /\ fnOp = ""
  /\ \E blob \in StoreCachedBlobs :
     \E read \in {normalizeStore(blob, BlobSceneIds(blob) \cup BackendIds)} :
       /\ ~read.threw
       /\ StoreYieldFrom("normalizeStore", read.value[1], Some([scenes |-> 0]))

\* the useState initializer without a cached store (line 107)
StoreCreate ==
  /\ fnOp = ""
  /\ StoreYield("createDefaultStore", createDefaultStore(FreshId(BackendIds, 1)))

\* the cache-load effect on the store the persist effect wrote (lines 172-190)
StoreReload ==
  /\ fnOp # ""
  /\ \E read \in {normalizeStore(StoreBlob(fnOut), UsedBy(fnOut))} :
       /\ ~read.threw
       /\ StoreYield("normalizeStore", read.value[1])

StoreSelectChapter ==
  /\ fnOp # ""
  /\ \E chapterId \in StoreChapterIds :
       /\ chapterId \notin DOMAIN fnOut.chapters =>
            Cardinality(StoreSceneIds(fnOut.chapters)) < MaxStoreScenes
       /\ StoreYield("selectChapter", selectChapter(fnOut, chapterId, FreshId(UsedBy(fnOut), 1)))

StoreUpdateScene ==
  /\ fnOp # ""
  /\ fnOut.currentChapterId \in DOMAIN fnOut.chapters
  /\ \E updater \in Updaters :
       StoreYield("updateScene",
                  updateScene(fnOut, ActiveSceneId(fnOut), updater, UsedBy(fnOut)))

StoreAddScene ==
  /\ fnOp # ""
  /\ Len(CurrentChapterOf(fnOut).scenes) < MaxScenes
  /\ Cardinality(StoreSceneIds(fnOut.chapters)) < MaxStoreScenes
  /\ StoreYield("addScene", addScene(fnOut, UsedBy(fnOut)))

StoreRemoveScene ==
  /\ fnOp # ""
  /\ fnOut.currentChapterId \in DOMAIN fnOut.chapters
  /\ StoreYieldFrom("removeScene", removeScene(fnOut, ActiveSceneId(fnOut), UsedBy(fnOut)),
                    Some([scenes |-> Len(fnOut.chapters[fnOut.currentChapterId].scenes)]))

StoreIntegrateSeed ==
  /\ fnOp # ""
  /\ Cardinality(StoreSceneIds(fnOut.chapters)) < MaxStoreScenes
  /\ \E seed \in Seeds :
       /\ String(seed.chapterId[1]) \in DOMAIN fnOut.chapters =>
            Len(fnOut.chapters[String(seed.chapterId[1])].scenes) < MaxScenes
       /\ StoreYield("integrateSeed", integrateSeed(fnOut, seed, UsedBy(fnOut)))

StoreMergeBackendScenes ==
  /\ fnOp # ""
  /\ \E scenes \in LoadScenesResponses :
     \E grouped \in {groupScenesByChapter(scenes, UsedBy(fnOut))} :
       /\ DOMAIN grouped # {}
       /\ StoreYield("mergeBackendScenes", mergeBackendScenes(fnOut, grouped, UsedBy(fnOut)))

StoreMergeChaptersFromList ==
  /\ fnOp # ""
  /\ \E chapters \in ManuscriptResponses :
       StoreYield("mergeChaptersFromList",
                  mergeChaptersFromList(fnOut, chapters, UsedBy(fnOut)))

\* planScenesFromOutline with a planner that returns one scene (lines 662-773)
StorePlanScenes ==
  /\ fnOp # ""
  /\ fnOut.currentChapterId \in DOMAIN fnOut.chapters
  /\ CurrentChapterOf(fnOut).outline # ""
  /\ \E closure \in {[activeChapterId |-> fnOut.currentChapterId,
                       chapterTitle |-> CurrentChapterOf(fnOut).chapterTitle]} :
     \E reindexed \in {reindexScenes(closure.chapterTitle, <<PlannedScene(0)>>, UsedBy(fnOut))} :
       StoreYield("planScenesFromOutline", planApply(fnOut, closure, reindexed))

StoreNext ==
  \/ StoreCreate
  \/ StoreLoadCached
  \/ StoreReload
  \/ StoreSelectChapter
  \/ StoreUpdateScene
  \/ StoreAddScene
  \/ StoreRemoveScene
  \/ StoreIntegrateSeed
  \/ StoreMergeBackendScenes
  \/ StoreMergeChaptersFromList
  \/ StorePlanScenes
SpecStore == StoreInit /\ [][StoreNext]_vars

\* every scene of every chapter holds its array position as ordering
OrderingIsPosition(store) ==
  \A id \in DOMAIN store.chapters :
    \A i \in 1..Len(store.chapters[id].scenes) :
      store.chapters[id].scenes[i].ordering = i - 1

\* C12: in every reachable store state (from createDefaultStore, after any
\* sequence of selectChapter, addScene, removeScene, updateScene, seed
\* integration and both merges) every scene of every chapter has an integer
\* ordering equal to its position in the chapter's scene list.
C12_OrderingIsPosition == fnOp # "" => OrderingIsPosition(fnOut)

\* C29: in every reachable store state every chapter entry has a non-empty scene
\* list: removeScene of a chapter's last scene leaves one fresh default scene,
\* and selectChapter, normalizeStore, seed integration and the merges produce no
\* chapter with zero scenes.
C29_ChaptersHaveScenes ==
  fnOp # "" => \A id \in DOMAIN fnOut.chapters : Len(fnOut.chapters[id].scenes) > 0

\* removeScene was given a chapter with one scene and removed it: the chapter
\* holds one scene with the default's empty text
C29_Witness ==
  /\ fnOp = "removeScene" /\ fnIn = Some([scenes |-> 1])
  /\ Len(fnOut.chapters[fnOut.currentChapterId].scenes) = 1
  /\ fnOut.chapters[fnOut.currentChapterId].scenes[1].text = ""
  /\ fnOut.chapters[fnOut.currentChapterId].scenes[1].id = fnOut.currentSceneId

-----------------------------------------------------------------------------
(* SpecEffects: the component's timers and requests. The browser keeps every
   timeout that was set and not cleared, and every request that was issued,
   whatever becomes of the component; the active project may change while the
   component stays mounted. *)

\* clearTimeout(handle): a mutant that clears nothing
clearTimeoutMutant(pending, handle) == pending
\* clearTimeout(handle) on the browser's pending timeouts
clearTimeout(pending, handle) == {t \in pending : t.handle # handle}

\* the handle setTimeout returns: one no timeout and no ref holds
FreshHandle ==
  CHOOSE h \in 1..(Cardinality(timeouts) + 2) :
    /\ h \notin {t.handle : t \in timeouts} \cup {persistTimerRef}
    /\ \A g \in 1..(h - 1) : g \in {t.handle : t \in timeouts} \cup {persistTimerRef}

\* scheduleBackendPersist(store) with a backend (lines 324-327)
scheduleBackendPersist(store) ==
  /\ timeouts' = clearTimeout(timeouts, persistTimerRef)
                   \cup {[handle |-> FreshHandle, payload |-> persistPayload(store),
                          detached |-> FALSE]}
  /\ persistTimerRef' = FreshHandle

\* the cancelled flag of the effect that issued a request: a mutant that never
\* looks at it
effectCancelledMutant(request) == FALSE
\* `cancelled` of lines 198 and 217
effectCancelled(request) == request.cancelled

\* a mutant: a rejection is handled as a response without data
resolvedMutant(outcome) == TRUE
\* the await of line 197 returns, the then of line 226 runs
resolved(outcome) == ~outcome.rejected

\* how a request may settle
ScenesOutcomes ==
  {[rejected |-> TRUE, scenes |-> <<>>]}
  \cup {[rejected |-> FALSE, scenes |-> scenes] : scenes \in LoadScenesResponses}
ManuscriptOutcomes ==
  {[rejected |-> TRUE, chapters |-> <<>>]}
  \cup {[rejected |-> FALSE, chapters |-> chapters] : chapters \in ManuscriptResponses}

\* the variables of Spec that SpecEffects leaves parked
EffParked == <<persistTimer, scenesReq, manuscriptReq, plan, scheduledOrigin, lastEdit, fnVars,
              seedLog, sessionVars>>

EffInit ==
  /\ FnParked
  /\ sceneStore = NoStore /\ mounted = FALSE /\ backendEnabled \in BOOLEAN
  /\ suppressPersist = FALSE /\ persistTimer = None /\ seedApplied = FALSE
  /\ storeCache = None /\ seedCache = None
  /\ scenesReq = "none" /\ manuscriptReq = "none" /\ plan = None
  /\ scheduledOrigin = "none" /\ lastEdit = None
  /\ EnvParked

\* a render commits `store`: the persist effect (lines 160-170)
EffCommit(store, suppress) ==
  \E canon \in {CanonStore(store, IdsInOrder(store, None))} :
    /\ sceneStore' = canon
    /\ storeCache' = Some(StoreBlob(canon))
    /\ IF backendEnabled /\ ~suppress
         THEN scheduleBackendPersist(store)
         ELSE UNCHANGED <<timeouts, persistTimerRef>>
    /\ suppressPersist' = FALSE

\* the effects of lines 160-320 run in order on the store `initial` of the
\* render, `survivors` being the requests of earlier runs; then the store they
\* set is rendered
EffRunEffects(initial, survivors) ==
  \E local \in LocalManuscripts :
  \* cache-load effect (lines 172-190) reads what the persist effect wrote
  \E reread \in {normalizeStore(StoreBlob(initial), UsedBy(initial))} :
  \E loaded \in {IF reread.threw THEN initial ELSE reread.value[1]} :
  \* loadManuscript effect without a backend (lines 229-239)
  \E listed \in {IF ~backendEnabled /\ local # None
                   THEN mergeChaptersFromList(loaded, local[1], UsedBy(loaded))
                   ELSE loaded} :
  \* seed effect (lines 308-320)
  \E final \in {IF seedCache # None
                  THEN integrateSeed(listed, seedCache[1], UsedBy(listed))
                  ELSE listed} :
  \E canon \in {CanonStore(final, IdsInOrder(final, None))} :
    /\ sceneStore' = canon
    /\ storeCache' = Some(StoreBlob(canon))
    \* persist effect of the first render: suppressPersistRef is still false
    /\ IF backendEnabled /\ ~suppressPersist
         THEN scheduleBackendPersist(initial)
         ELSE UNCHANGED <<timeouts, persistTimerRef>>
    /\ suppressPersist' = FALSE
    /\ seedApplied' = (seedCache # None)
    /\ seedCache' = None
    /\ inflight' = survivors \cup
         (IF backendEnabled
            THEN {[kind |-> "loadScenes", cancelled |-> FALSE, detached |-> FALSE],
                  [kind |-> "loadManuscript", cancelled |-> FALSE, detached |-> FALSE]}
            ELSE {})

\* the component mounts: the useState initializer (lines 95-108), then the effects
EffMount ==
  /\ ~mounted
  /\ mounted' = TRUE
  /\ \E usedCache \in {(IF storeCache = None THEN {} ELSE BlobSceneIds(storeCache[1]))
                        \cup BackendIds} :
     \E read \in {IF storeCache # None /\ storeCache[1].chapters # None
                     THEN normalizeStore(storeCache[1], usedCache) ELSE Throw} :
     \E initial \in {IF read.threw THEN createDefaultStore(FreshId(usedCache, 1))
                      ELSE read.value[1]} :
       EffRunEffects(initial, inflight)
  /\ UNCHANGED <<backendEnabled, saveScenesCall, settled, EffParked>>

\* the cleanups on unmount (lines 187-189, 208-210, 242-244, 354-358): every
\* effect is cancelled, the timer of the ref is cleared; what the browser still
\* holds belongs to a component that is gone
EffUnmount ==
  /\ mounted
  /\ mounted' = FALSE
  /\ sceneStore' = NoStore
  /\ suppressPersist' = FALSE /\ seedApplied' = FALSE
  /\ timeouts' = {[t EXCEPT !.detached = TRUE] : t \in clearTimeout(timeouts, persistTimerRef)}
  /\ persistTimerRef' = 0
  /\ inflight' = {[r EXCEPT !.cancelled = TRUE, !.detached = TRUE] : r \in inflight}
  /\ UNCHANGED <<backendEnabled, storeCache, seedCache, saveScenesCall, settled, EffParked>>

\* activeProject changes while the component is mounted: the effects that depend
\* on it are cleaned up (their requests are cancelled) and run again on the
\* store of this render, under the keys of the new project
EffSwitchProject ==
  /\ mounted
  /\ EffRunEffects(sceneStore, {[r EXCEPT !.cancelled = TRUE] : r \in inflight})
  /\ UNCHANGED <<mounted, backendEnabled, saveScenesCall, settled, EffParked>>

\* a pending timeout fires: persistScenesToBackend(store) calls saveScenes
\* (lines 327, 330-352)
EffTimerFire ==
  /\ \E t \in timeouts :
       /\ timeouts' = timeouts \ {t}
       /\ saveScenesCall' = Some([payload |-> t.payload, detached |-> t.detached])
  /\ UNCHANGED <<sceneStore, mounted, backendEnabled, suppressPersist, seedApplied,
                 storeCache, seedCache, persistTimerRef, inflight, settled, EffParked>>

\* what the history keeps of a request that settled
Settled(request, outcome, ran, changed) ==
  Some([kind |-> request.kind, cancelled |-> request.cancelled,
        detached |-> request.detached, rejected |-> outcome.rejected,
        ran |-> ran, changed |-> changed])

\* loadScenes settles (lines 197-205). setSceneStore of a component that is gone
\* does nothing.
EffScenesSettle ==
  /\ \E request \in inflight : \E outcome \in ScenesOutcomes :
       /\ request.kind = "loadScenes"
       /\ inflight' = inflight \ {request}
       /\ \E grouped \in {groupScenesByChapter(outcome.scenes,
                            IF request.detached THEN BackendIds ELSE UsedBy(sceneStore))} :
            IF /\ resolved(outcome) /\ ~effectCancelled(request)
               /\ DOMAIN grouped # {} /\ ~request.detached
              THEN \E merged \in {mergeBackendScenes(sceneStore, grouped, UsedBy(sceneStore))} :
                     /\ EffCommit(merged, TRUE)
                     /\ settled' = Settled(request, outcome, TRUE,
                                      CanonStore(merged, IdsInOrder(merged, None)) # sceneStore)
              ELSE /\ settled' = Settled(request, outcome, FALSE, FALSE)
                   /\ UNCHANGED <<sceneStore, storeCache, timeouts, persistTimerRef,
                                  suppressPersist>>
  /\ UNCHANGED <<mounted, backendEnabled, seedApplied, seedCache, saveScenesCall, EffParked>>

\* loadManuscript settles (lines 216-227)
EffManuscriptSettle ==
  /\ \E request \in inflight : \E outcome \in ManuscriptOutcomes :
       /\ request.kind = "loadManuscript"
       /\ inflight' = inflight \ {request}
       /\ IF resolved(outcome) /\ ~effectCancelled(request) /\ ~request.detached
            THEN \E merged \in {mergeChaptersFromList(sceneStore, outcome.chapters,
                                                      UsedBy(sceneStore))} :
                   /\ EffCommit(merged, TRUE)
                   /\ settled' = Settled(request, outcome, TRUE,
                                    CanonStore(merged, IdsInOrder(merged, None)) # sceneStore)
            ELSE /\ settled' = Settled(request, outcome, FALSE, FALSE)
                 /\ UNCHANGED <<sceneStore, storeCache, timeouts, persistTimerRef,
                                suppressPersist>>
  /\ UNCHANGED <<mounted, backendEnabled, seedApplied, seedCache, saveScenesCall, EffParked>>

\* the editor of the active scene (lines 980-1014)
EffUpdateScene ==
  /\ mounted
  /\ sceneStore.currentChapterId \in DOMAIN sceneStore.chapters
  /\ \E updater \in Updaters :
     \E store \in {updateScene(sceneStore, ActiveSceneId(sceneStore), updater,
                               UsedBy(sceneStore))} :
       EffCommit(store, suppressPersist)
  /\ UNCHANGED <<mounted, backendEnabled, seedApplied, seedCache, inflight, saveScenesCall,
                 settled, EffParked>>

EffNext ==
  \/ EffMount
  \/ EffUnmount
  \/ EffSwitchProject
  \/ EffTimerFire
  \/ EffScenesSettle
  \/ EffManuscriptSettle
  \/ EffUpdateScene
SpecEffects == EffInit /\ [][EffNext]_vars

\* C13: at any time at most one remote-write timer is pending, and after the
\* component unmounts no timer of it is left to call saveScenes.
C13_OneTimerNoneAfterUnmount ==
  /\ Cardinality(timeouts) <= 1
  /\ \A t \in timeouts : ~t.detached
  /\ saveScenesCall # None => ~saveScenesCall[1].detached
\* a second scheduling found the first timer pending and replaced it
C13_Witness ==
  /\ mounted /\ saveScenesCall = None
  /\ persistTimerRef = 2
  /\ \E t \in timeouts : t.handle = 2

\* C15: a loadScenes or loadManuscript response that completes after its effect
\* was cancelled (unmount, or a change of the active project) is never applied
\* to the scene store: no merge runs for it and the store stays as it is.
C15_CancelledResponseNotApplied ==
  (settled # None /\ settled[1].cancelled) => (~settled[1].ran /\ ~settled[1].changed)
\* a response with data came back to the mounted component after a change of
\* project had cancelled its effect
C15_Witness ==
  /\ mounted /\ settled # None
  /\ settled[1].cancelled /\ ~settled[1].detached /\ ~settled[1].rejected

\* C16: when loadScenes or loadManuscript rejects, the scene store is unchanged:
\* no merge runs for a rejected request.
C16_RejectionLeavesStore ==
  (settled # None /\ settled[1].rejected) => (~settled[1].ran /\ ~settled[1].changed)
\* a request of the running effect was rejected
C16_Witness ==
  /\ mounted /\ settled # None
  /\ settled[1].rejected /\ ~settled[1].cancelled /\ settled[1].kind = "loadManuscript"

----------------------------------------------------------------------------
(* SpecPersist: persistScenesToBackend on the stores of the merge samples *)

PersistInit ==
  /\ CompParked
  /\ fnOp = ""
  /\ fnIn \in SampleStores
  /\ fnOut = None

\* persistScenesToBackend(store) up to its call of saveScenes (lines 330-348)
FnPersistScenesToBackend ==
  /\ fnOp = ""
  /\ fnOp' = "persistScenesToBackend"
  /\ fnOut' = persistPayload(fnIn)
  /\ UNCHANGED <<fnIn, compVars>>

PersistNext == FnPersistScenesToBackend
SpecPersist == PersistInit /\ [][PersistNext]_vars

\* the scenes of the chapters of a store whose key is an integer
LinkedSceneCount(store) ==
  LET count(id) == IF id \in DOMAIN store.chapters /\ Number(id) # NaN
                     THEN Len(store.chapters[id].scenes) ELSE 0
  IN count("7") + count("8")

\* C14: every payload persistScenesToBackend passes to saveScenes holds only
\* scenes of chapters whose id is an integer: one row for each of their scenes
\* and no row for a scene of the "standalone" chapter.
C14_PayloadLinkedOnly ==
  fnOp = "persistScenesToBackend" =>
    /\ \A i \in 1..Len(fnOut) : fnOut[i].chapterId \in {7, 8}
    /\ Len(fnOut) = LinkedSceneCount(fnIn)
\* a store with scenes in "standalone" and in a linked chapter was persisted
C14_Witness ==
  /\ fnOp = "persistScenesToBackend"
  /\ "standalone" \in DOMAIN fnIn.chapters
  /\ Len(fnIn.chapters["standalone"].scenes) > 0
  /\ Len(fnOut) > 0

----------------------------------------------------------------------------
(* SpecDeleteChapter: ManuscriptManager.deleteChapter and what it leaves in
   local storage (src/src/components/ManuscriptManager.js) *)

\* a string of local storage: a blob stands for its JSON text, "invalid" for a
\* text JSON.parse rejects (JSON.parse(raw) of lines 196 and 215)
InvalidJson == [kind |-> "invalid"]
parseCached(raw) == IF raw.kind = "invalid" THEN Throw ELSE Return(raw)

\* a mutant: the entry is deleted, the pointers are left as they were
pruneCurrentChapterIdMutant(blob, chapters, key) == blob.currentChapterId
\* lines 200-202 of pruneSceneStoreChapter: currentChapterId after the delete
pruneCurrentChapterId(blob, chapters, key) ==
  IF blob.currentChapterId # key THEN blob.currentChapterId
  ELSE LET remainingIds == ObjectKeys(chapters)
           others == SelectSeq(remainingIds, LAMBDA id : id # "standalone")
       IN IF Len(others) > 0 THEN others[1] ELSE "standalone"

\* pruneSceneStoreChapter(chapterId) on localStorage[sceneStoreKey] (lines 193-210)
pruneSceneStoreChapter(raw, chapterId) ==
  IF raw = None THEN raw
  ELSE IF parseCached(raw[1]).threw THEN raw
  ELSE LET blob == raw[1]
       IN IF blob.kind # "object" \/ blob.chapters = None THEN raw
          ELSE LET key == String(chapterId)
                   chapters == [id \in DOMAIN blob.chapters[1] \ {key} |-> blob.chapters[1][id]]
                   current == pruneCurrentChapterId(blob, chapters, key)
                   scenes == IF current \in DOMAIN chapters /\ chapters[current] # None
                                  /\ chapters[current][1].scenes # None
                               THEN chapters[current][1].scenes[1] ELSE <<>>
               IN Some([blob EXCEPT
                          !.chapters = Some(chapters),
                          !.currentChapterId = current,
                          !.currentSceneId =
                            IF blob.currentChapterId # key THEN @
                            ELSE IF Len(scenes) > 0 /\ scenes[1] # None
                                   THEN scenes[1][1].id ELSE 0])

\* String(seed?.chapterId)
SeedChapterKey(seed) == IF seed.chapterId = None THEN "undefined" ELSE String(seed.chapterId[1])
\* pruneSeed(chapterId) on localStorage[sceneSeedKey] (lines 212-223)
pruneSeed(raw, chapterId) ==
  IF raw = None THEN raw
  ELSE IF SeedChapterKey(raw[1]) = String(chapterId) THEN None ELSE raw

\* the chapters of the manuscript and the chapter the user deletes
DeleteChapterList == <<7, 8>>
DeleteIds == {7, 8}
\* localStorage[scene_builder_store_<project>]: nothing, a text that is no JSON,
\* an object without chapters, or a store the Scene Builder wrote
DeleteStoreCaches ==
  {None, Some(InvalidJson),
   Some([kind |-> "object", chapters |-> None, currentChapterId |-> "", currentSceneId |-> 0])}
  \cup {Some(StoreBlob(store)) :
          store \in {sample \in SampleStores :
                       /\ HasStandalone(sample)
                       /\ sample.currentChapterId \in DOMAIN sample.chapters
                       /\ sample.currentSceneId = 11}}
\* localStorage[scene_builder_seed_<project>]
DeleteSeedCaches ==
  {None, Some(Seed(Some(7), "Intro", "o")), Some(Seed(Some(8), "Other", "")),
   Some(Seed(None, "Loose", ""))}
\* how saveManuscript settles: it rejects, or resolves with or without chapters
SaveManuscriptOutcomes == {"rejected", "chapters", "nothing"}

DeleteInit ==
  /\ CompParked
  /\ fnOp = ""
  /\ \E id \in DeleteIds, storageEnabled \in BOOLEAN,
        store \in DeleteStoreCaches, seed \in DeleteSeedCaches :
       fnIn = [id |-> id, storageEnabled |-> storageEnabled, chapters |-> DeleteChapterList,
               sceneStore |-> store, seed |-> seed]
  /\ fnOut = [chapters |-> DeleteChapterList, saveRejected |-> FALSE,
              deleteScenesCalled |-> FALSE, error |-> FALSE,
              sceneStore |-> fnIn.sceneStore, seed |-> fnIn.seed]

\* what is left once the chapter's scenes are pruned locally (lines 188-189)
Pruned(out) ==
  [out EXCEPT !.sceneStore = pruneSceneStoreChapter(@, fnIn.id),
              !.seed = pruneSeed(@, fnIn.id)]

\* deleteChapter(id) up to its first await (lines 170-179, 96-99): not ready,
\* declined, or confirmed
DeleteStart ==
  /\ fnOp = ""
  /\ \E storageReady, confirmed \in BOOLEAN :
       IF ~storageReady THEN fnOp' = "notReady" /\ fnOut' = fnOut
       ELSE IF ~confirmed THEN fnOp' = "declined" /\ fnOut' = fnOut
       ELSE \E next \in {SelectSeq(fnOut.chapters, LAMBDA c : c # fnIn.id)} :
              IF fnIn.storageEnabled
                THEN /\ fnOp' = "saveManuscript"
                     /\ fnOut' = [fnOut EXCEPT !.chapters = next]
                \* without a backend the chapters go to local storage and the
                \* pruning follows at once (lines 109-112, 188-189)
                ELSE /\ fnOp' = "done"
                     /\ fnOut' = Pruned([fnOut EXCEPT !.chapters = next])
  /\ UNCHANGED <<fnIn, compVars>>

\* saveManuscript settles (lines 100-108); deleteChapter goes on to call
\* deleteScenes (lines 181-183)
DeleteSaveSettles ==
  /\ fnOp = "saveManuscript"
  /\ fnOp' = "deleteScenes"
  /\ \E outcome \in SaveManuscriptOutcomes :
       fnOut' = [fnOut EXCEPT !.saveRejected = (outcome = "rejected"),
                              !.error = (outcome = "rejected"),
                              !.deleteScenesCalled = TRUE]
  /\ UNCHANGED <<fnIn, compVars>>

\* deleteScenes settles, a rejection is logged (lines 183-186); the local
\* pruning follows (lines 188-189)
DeleteScenesSettles ==
  /\ fnOp = "deleteScenes"
  /\ fnOp' = "done"
  /\ fnOut' = Pruned(fnOut)
  /\ UNCHANGED <<fnIn, compVars>>

DeleteNext ==
  \/ DeleteStart
  \/ DeleteSaveSettles
  \/ DeleteScenesSettles
SpecDeleteChapter == DeleteInit /\ [][DeleteNext]_vars

\* C17: in deleteChapter, when saveManuscript rejects the operation is aborted:
\* deleteScenes is not called, the chapter's entry stays in the cached scene
\* store and the pending seed stays in local storage.
C17_RejectedSaveAborts ==
  (fnOp \in {"deleteScenes", "done"} /\ fnOut.saveRejected) =>
    /\ ~fnOut.deleteScenesCalled
    /\ fnOut.sceneStore = fnIn.sceneStore
    /\ fnOut.seed = fnIn.seed

\* the keys of the chapters of a cached store
CachedKeys(raw) == DOMAIN raw[1].chapters[1]
HasCachedChapters(raw) ==
  raw # None /\ raw[1].kind = "object" /\ raw[1].chapters # None

----------------------------------------------------------------------------
(* SpecStorage: the calls of storageService (src/unnamed/part_000) *)

\* base.replace(/\/$/, '')
StripTrailingSlash(base) == IF base = "http://api/" THEN "http://api" ELSE base
\* getBackendBase() (lines 3-6)
getBackendBase(backendBase, envUrl) ==
  LET base == IF backendBase # "" THEN backendBase ELSE envUrl
  IN IF base # "" THEN StripTrailingSlash(base) ELSE ""
\* isBackendEnabled() (lines 44-46)
isBackendEnabled(backendBase, envUrl) == getBackendBase(backendBase, envUrl) # ""

\* the calls of the service: the HTTP method of each and what each returns
\* without a backend ("throws" when it throws instead)
StorageCalls ==
  {[name |-> "loadManuscript", method |-> "GET", local |-> "chapters: []"],
   [name |-> "saveManuscript", method |-> "PUT", local |-> "chapters"],
   [name |-> "loadScenes", method |-> "GET", local |-> "scenes: []"],
   [name |-> "saveScenes", method |-> "PUT", local |-> "scenes"],
   [name |-> "deleteScenes", method |-> "DELETE", local |-> "chapterId"],
   [name |-> "loadShotList", method |-> "GET", local |-> "shots: []"],
   [name |-> "saveShotList", method |-> "PUT", local |-> "shots"],
   [name |-> "listCharacters", method |-> "GET", local |-> "[]"],
   [name |-> "saveCharacter", method |-> "POST", local |-> "character"],
   [name |-> "deleteCharacter", method |-> "DELETE", local |-> "success"],
   [name |-> "listWorldFacts", method |-> "GET", local |-> "[]"],
   [name |-> "saveWorldFact", method |-> "POST", local |-> "fact"],
   [name |-> "deleteWorldFact", method |-> "DELETE", local |-> "success"],
   [name |-> "listProjects", method |-> "GET", local |-> "[default]"],
   [name |-> "createProject", method |-> "POST", local |-> "throws"]}

\* what fetch does: it fails, or answers not ok, ok with JSON, ok without
FetchOutcomes == {"network error", "not ok", "json", "no content"}
\* geminiService.backendBase and process.env.REACT_APP_BACKEND_URL
BackendBases == {"", "http://api/"}
EnvUrls == {"", "http://env"}

\* request(path, options) (lines 8-41): what the call settles with and the
\* requests it issued
request(base, call, outcome) ==
  IF base = "" THEN [rejected |-> TRUE, value |-> "Backend URL not configured", fetched |-> <<>>]
  ELSE [rejected |-> outcome \in {"network error", "not ok"},
        value |-> CASE outcome = "json" -> "data"
                    [] outcome = "no content" -> "null"
                    [] OTHER -> outcome,
        fetched |-> <<[base |-> base, method |-> call.method]>>]

\* a call of the service (lines 48-174)
storageCall(backendBase, envUrl, call, outcome) ==
  IF ~isBackendEnabled(backendBase, envUrl)
    THEN [rejected |-> call.local = "throws", value |-> call.local, fetched |-> <<>>]
    ELSE request(getBackendBase(backendBase, envUrl), call, outcome)

StorageInit ==
  /\ CompParked
  /\ fnOp = ""
  /\ \E call \in StorageCalls, backendBase \in BackendBases, envUrl \in EnvUrls,
        outcome \in FetchOutcomes :
       fnIn = [call |-> call, backendBase |-> backendBase, envUrl |-> envUrl,
               outcome |-> outcome]
  /\ fnOut = None

FnStorageCall ==
  /\ fnOp = ""
  /\ fnOp' = fnIn.call.name
  /\ fnOut' = storageCall(fnIn.backendBase, fnIn.envUrl, fnIn.call, fnIn.outcome)
  /\ UNCHANGED <<fnIn, compVars>>

StorageNext == FnStorageCall
SpecStorage == StorageInit /\ [][StorageNext]_vars

\* C19: with no backend base URL configured, every storageService call resolves
\* without rejecting and issues no network request.
C19_LocalCallsResolve ==
  (fnOp # "" /\ fnIn.backendBase = "" /\ fnIn.envUrl = "") =>
    (~fnOut.rejected /\ fnOut.fetched = <<>>)

----------------------------------------------------------------------------
(* SpecInitializer: the useState initializer of sceneStore on the cached text *)

\* the try block of lines 96-103: it throws, falls through, or returns a store
tryLoadCached(raw, used) ==
  IF raw = None THEN [threw |-> FALSE, returned |-> FALSE, store |-> None]
  ELSE LET parsed == parseCached(raw[1])
       IN IF parsed.threw THEN [threw |-> TRUE, returned |-> FALSE, store |-> None]
          ELSE LET blob == parsed.value[1]
               IN IF blob.kind # "object" \/ blob.chapters = None
                    THEN [threw |-> FALSE, returned |-> FALSE, store |-> None]
                    ELSE LET normalized == normalizeStore(blob, used)
                         IN [threw |-> normalized.threw, returned |-> ~normalized.threw,
                             store |-> normalized.value]

\* a mutant: the initializer without its try/catch
initialSceneStoreMutant(raw, used) ==
  LET attempt == tryLoadCached(raw, used)
  IN IF attempt.threw THEN Throw
     ELSE IF attempt.returned THEN Return(attempt.store[1])
     ELSE Return(createDefaultStore(FreshId(used, 1)))
\* the initializer (lines 95-108): what the call does
initialSceneStore(raw, used) ==
  LET attempt == tryLoadCached(raw, used)
  IN IF attempt.returned THEN Return(attempt.store[1])
     ELSE Return(createDefaultStore(FreshId(used, 1)))

\* localStorage[storeKey]: nothing, a text that is no JSON, or the JSON text of
\* a value
InitializerCaches == {None, Some(InvalidJson)} \cup {Some(blob) : blob \in NormalizeBlobs}

InitializerInit ==
  /\ CompParked
  /\ fnOp = ""
  /\ fnIn \in InitializerCaches
  /\ fnOut = None

FnInitialSceneStore ==
  /\ fnOp = ""
  /\ fnOp' = "initializer"
  /\ fnOut' = initialSceneStore(fnIn, IF fnIn = None \/ fnIn[1].kind = "invalid"
                                        THEN {} ELSE BlobSceneIds(fnIn[1]))
  /\ UNCHANGED <<fnIn, compVars>>

InitializerNext == FnInitialSceneStore
SpecInitializer == InitializerInit /\ [][InitializerNext]_vars

\* the cached text cannot be parsed, parses to a value without chapters, or
\* makes normalizeStore fail
CacheUnusable(raw) ==
  /\ raw # None
  /\ \/ raw[1].kind # "object"
     \/ raw[1].chapters = None
     \/ normalizeStore(raw[1], BlobSceneIds(raw[1])).threw

\* one "standalone" chapter with one scene, both pointers naming them
IsDefaultStore(store) ==
  /\ DOMAIN store.chapters = {"standalone"}
  /\ Len(store.chapters["standalone"].scenes) = 1
  /\ store.currentChapterId = "standalone"
  /\ store.currentSceneId = store.chapters["standalone"].scenes[1].id
  /\ store = createDefaultStore(store.currentSceneId)

\* C20: when the cached store text cannot be parsed, parses to a value without
\* chapters, or makes normalizeStore fail, the load path raises nothing and the
\* initial store is createDefaultStore().
C20_UnusableCacheGivesDefault ==
  (fnOp = "initializer" /\ CacheUnusable(fnIn)) =>
    (~fnOut.threw /\ IsDefaultStore(fnOut.value[1]))
\* the cache held chapters that made normalizeStore throw
C20_Witness ==
  /\ fnOp = "initializer"
  /\ fnIn # None /\ fnIn[1].kind = "object" /\ fnIn[1].chapters # None
  /\ normalizeStore(fnIn[1], BlobSceneIds(fnIn[1])).threw
  /\ ~fnOut.threw

----------------------------------------------------------------------------
(* SpecScene: normalizeScene on loosely typed candidates, once and twice *)

\* scene.metadata of a candidate: absent, null, an object, and JSON texts that
\* parse to an object, a string, a number, null and false, and one that does not
\* parse
SceneMetadataValues ==
  {NoMetadata, <<"null", "">>, EmptyObject,
   <<"string", "{}">>, <<"string", "\"abc\"">>, <<"string", "5">>,
   <<"string", "null">>, <<"string", "false">>, <<"string", "not json">>}
\* scene.type and scene.sceneType of a candidate: absent, a scene type, or
\* another text
SceneTypeValues == {"", "action", "battle"}
SceneCandidates ==
  {[id |-> id, dbId |-> dbId, title |-> title, type |-> type, sceneType |-> sceneType,
    text |-> "", notes |-> "", metadata |-> metadata, ordering |-> ordering] :
     id \in {0, 1}, dbId \in {0, 101}, title \in {NoTitle, CustomTitle("Duel")},
     type \in SceneTypeValues, sceneType \in {"", "emotional"},
     metadata \in SceneMetadataValues, ordering \in {NoOrdering, 0, 5}}

SceneInit ==
  /\ CompParked
  /\ fnOp = ""
  /\ \E scene \in SceneCandidates, index \in {0, 1} : fnIn = [scene |-> scene, index |-> index]
  /\ fnOut = None

\* normalizeScene(x, i), and normalizeScene of what it returned
FnNormalizeScene ==
  /\ fnOp = ""
  /\ fnOp' = "normalizeScene"
  /\ \E once \in {normalizeScene(fnIn.scene, fnIn.index, 9)} :
       fnOut' = [once |-> once,
                 twice |-> normalizeScene(Candidate(once), fnIn.index, 8)]
  /\ UNCHANGED <<fnIn, compVars>>

SceneNext == FnNormalizeScene
SpecScene == SceneInit /\ [][SceneNext]_vars

\* C21: normalizeScene is idempotent: normalizeScene(normalizeScene(x, i), i)
\* is deep-equal to normalizeScene(x, i), also when x.metadata is a JSON text
\* that parses to a string, a number, null or false.
C21_NormalizeSceneIdempotent ==
  fnOp = "normalizeScene" => fnOut.twice = fnOut.once

\* C22: the type of the scene normalizeScene returns is one of dialogue,
\* action, emotional, exposition, climax, transition; any other type becomes
\* dialogue.
C22_NormalizedTypeIsSceneType ==
  fnOp = "normalizeScene" =>
    /\ fnOut.once.type \in sceneTypes
    /\ (fnIn.scene.type # "" /\ fnIn.scene.type \notin sceneTypes)
         => fnOut.once.type = "dialogue"

----------------------------------------------------------------------------
(* SpecChapterMetadata: normalizeChapterMetadata (lines 49-86). A value is
   <<type, content>>; a character entry is null, a string, a number or an
   object with a name and a description. *)

\* s.trim()
Trim(s) ==
  CASE s = "  " -> ""
    [] s = " Ann " -> "Ann"
    [] s = " Bob " -> "Bob"
    [] s = " d " -> "d"
    [] OTHER -> s
\* String(value || '')
StringOrEmpty(value) == IF MetadataTruthy(value) THEN value[2] ELSE ""

\* a mutant: an entry is kept whatever its name
normalizeListItemMutant(item) ==
  CASE item.kind = "string" -> Some([name |-> Trim(item.text), description |-> ""])
    [] item.kind = "object" ->
         Some([name |-> Trim(StringOrEmpty(item.name)),
               description |-> Trim(StringOrEmpty(item.description))])
    [] OTHER -> Some([name |-> "", description |-> ""])
\* the map callback of normalizeList (lines 53-66): null (None) or an entry
normalizeListItem(item) ==
  CASE item.kind = "null" -> None
    [] item.kind = "string" ->
         IF Trim(item.text) = "" THEN None
         ELSE Some([name |-> Trim(item.text), description |-> ""])
    [] item.kind = "number" ->
         \* 0 is falsy; another number has no name
         None
    [] OTHER ->
         IF Trim(StringOrEmpty(item.name)) = "" THEN None
         ELSE Some([name |-> Trim(StringOrEmpty(item.name)),
                    description |-> Trim(StringOrEmpty(item.description))])

RECURSIVE normalizeListFrom(_, _)
\* .map(...).filter(Boolean) from position p on
normalizeListFrom(list, p) ==
  IF p > Len(list) THEN <<>>
  ELSE (IF normalizeListItem(list[p]) = None THEN <<>> ELSE <<normalizeListItem(list[p])[1]>>)
       \o normalizeListFrom(list, p + 1)
\* normalizeList (lines 50-68): list is None when it is no array
normalizeList(list) == IF list = None THEN <<>> ELSE normalizeListFrom(list[1], 1)

\* defaultChapterMetadata() (lines 26-31)
defaultChapterMetadata ==
  [mainCharacters |-> <<>>, supportingCharacters |-> <<>>, hooks |-> <<>>, beats |-> <<>>,
   number |-> None]

\* normalizeChapterMetadata (lines 49-86)
normalizeChapterMetadata(metadata) ==
  IF metadata.kind # "object" THEN defaultChapterMetadata
  ELSE [mainCharacters |-> normalizeList(metadata.mainCharacters),
        supportingCharacters |-> normalizeList(metadata.supportingCharacters),
        hooks |-> IF metadata.hooks # None THEN metadata.hooks[1] ELSE <<>>,
        beats |-> IF metadata.beats # None THEN metadata.beats[1] ELSE <<>>,
        number |-> IF metadata.number[1] = "number" THEN Some(metadata.number[2]) ELSE None]

\* the entries of a character list
CharacterNames ==
  {NoMetadata, <<"string", "">>, <<"string", "  ">>, <<"string", " Bob ">>, <<"number", "7">>}
CharacterItems ==
  {[kind |-> "null"], [kind |-> "number", text |-> "0"], [kind |-> "number", text |-> "5"]}
  \cup {[kind |-> "string", text |-> text] : text \in {"", "  ", " Ann "}}
  \cup {[kind |-> "object", name |-> name, description |-> description] :
          name \in CharacterNames, description \in {NoMetadata, <<"string", " d ">>}}
\* the argument: null, undefined, a string, a number, or an object whose lists
\* are arrays or something else
ChapterMetadataValues ==
  {[kind |-> "null"], [kind |-> "undefined"], [kind |-> "string"], [kind |-> "number"]}
  \cup {[kind |-> "object", mainCharacters |-> main, supportingCharacters |-> supporting,
         hooks |-> hooks, beats |-> None, number |-> number] :
          main \in {None} \cup {Some(list) : list \in SeqsUpTo(CharacterItems, MaxCharacters)},
          supporting \in {None, Some(<<[kind |-> "string", text |-> " Ann "],
                                       [kind |-> "string", text |-> "  "]>>)},
          hooks \in {None, Some(<<"hook">>)},
          number \in {NoMetadata, <<"number", "3">>}}

ChapterMetadataInit ==
  /\ CompParked
  /\ fnOp = ""
  /\ fnIn \in ChapterMetadataValues
  /\ fnOut = None

FnNormalizeChapterMetadata ==
  /\ fnOp = ""
  /\ fnOp' = "normalizeChapterMetadata"
  /\ fnOut' = normalizeChapterMetadata(fnIn)
  /\ UNCHANGED <<fnIn, compVars>>

ChapterMetadataNext == FnNormalizeChapterMetadata
SpecChapterMetadata == ChapterMetadataInit /\ [][ChapterMetadataNext]_vars

\* every entry has a non-empty trimmed name
NamesTrimmed(list) ==
  \A i \in 1..Len(list) : list[i].name # "" /\ Trim(list[i].name) = list[i].name
\* the entries of the input that carry a name
NamedItems(list) ==
  {i \in 1..Len(list) :
     \/ list[i].kind = "string" /\ Trim(list[i].text) # ""
     \/ list[i].kind = "object" /\ Trim(StringOrEmpty(list[i].name)) # ""}

\* C23: normalizeChapterMetadata returns, for every input, mainCharacters and
\* supportingCharacters lists in which every entry has a non-empty trimmed
\* name: a bare string becomes {name, description: ''}, an entry with an empty
\* or whitespace-only name is dropped, and null or non-object input yields the
\* all-empty default.
C23_ChapterMetadataNames ==
  fnOp = "normalizeChapterMetadata" =>
    /\ NamesTrimmed(fnOut.mainCharacters) /\ NamesTrimmed(fnOut.supportingCharacters)
    /\ fnIn.kind # "object" => fnOut = defaultChapterMetadata
    /\ (fnIn.kind = "object" /\ fnIn.mainCharacters # None) =>
         /\ Len(fnOut.mainCharacters) = Cardinality(NamedItems(fnIn.mainCharacters[1]))
         /\ \A i \in 1..Len(fnIn.mainCharacters[1]) :
              (fnIn.mainCharacters[1][i].kind = "string"
                 /\ Trim(fnIn.mainCharacters[1][i].text) # "")
              => \E j \in 1..Len(fnOut.mainCharacters) :
                   fnOut.mainCharacters[j] =
                     [name |-> Trim(fnIn.mainCharacters[1][i].text), description |-> ""]
\* a list with a bare string and an entry whose name is blank was normalized
C23_Witness ==
  /\ fnOp = "normalizeChapterMetadata"
  /\ fnIn.kind = "object" /\ fnIn.mainCharacters # None
  /\ Len(fnIn.mainCharacters[1]) = 2
  /\ fnIn.mainCharacters[1][1].kind = "string" /\ fnIn.mainCharacters[1][1].text = " Ann "
  /\ fnIn.mainCharacters[1][2].kind = "object"
  /\ fnIn.mainCharacters[1][2].name = <<"string", "  ">>
  /\ Len(fnOut.mainCharacters) = 1

-----------------------------------------------------------------------------
(* The seed of ManuscriptManager.openInSceneBuilder (ManuscriptManager.js
   lines 116-133) and its integration by Scene Builder (seed effect, lines
   308-320; integrateSeed, lines 360-397) *)

\* the seeds openInSceneBuilder writes: chapterId is the id of a chapter
SeedInputs ==
  {Seed(Some(7), "Intro", "o"), Seed(Some(7), "", ""), Seed(Some(8), "Next", "")}

\* localStorage.removeItem(sceneSeedKey) in the updater of integrateSeed
removeItemMutant(cached) == cached
removeItem(cached) == None

\* the chapter a seed goes to (line 362)
seedChapterId(seed) ==
  IF seed.chapterId # None THEN String(seed.chapterId[1]) ELSE "standalone"

SeedSceneCount(store, chapterId) ==
  IF chapterId \in DOMAIN store.chapters THEN Len(store.chapters[chapterId].scenes) ELSE 0

\* what the history keeps when the seed effect integrates the cached seed into
\* `before`, giving `after`
SeedIntegrated(before, after) ==
  LET seed == seedCache[1]
      chapterId == seedChapterId(seed)
      count == SeedSceneCount(after, chapterId)
  IN Some([seed |-> seed,
           times |-> (IF seedLog = None THEN 0 ELSE seedLog[1].times) + 1,
           before |-> SeedSceneCount(before, chapterId),
           after |-> count,
           kept |-> /\ count > SeedSceneCount(before, chapterId)
                    /\ \A i \in 1..SeedSceneCount(before, chapterId) :
                         after.chapters[chapterId].scenes[i].id
                           = before.chapters[chapterId].scenes[i].id,
           current |-> /\ after.currentChapterId = chapterId
                       /\ count > 0
                       /\ after.currentSceneId = after.chapters[chapterId].scenes[count].id,
           later |-> FALSE])

SeedInit == EffInit

\* ManuscriptManager.openInSceneBuilder writes the seed and navigates to Scene
\* Builder, which is not mounted while the manuscript page is shown
SeedOpenInSceneBuilder ==
  /\ ~mounted
  /\ \E seed \in SeedInputs :
       /\ IF storeCache = None THEN TRUE
          ELSE IF seedChapterId(seed) \notin DOMAIN storeCache[1].chapters[1] THEN TRUE
          ELSE Len(storeCache[1].chapters[1][seedChapterId(seed)][1].scenes[1]) < MaxScenes
               /\ Cardinality(BlobSceneIds(storeCache[1]) \ {0, storeCache[1].currentSceneId})
                    < MaxStoreScenes
       /\ seedCache' = Some(seed)
       /\ seedLog' = Some([seed |-> seed, times |-> 0, before |-> 0, after |-> 0,
                           kept |-> FALSE, current |-> FALSE, later |-> FALSE])
  /\ UNCHANGED <<sceneStore, mounted, backendEnabled, suppressPersist, persistTimer,
                 seedApplied, storeCache, scenesReq, manuscriptReq, plan, scheduledOrigin,
                 lastEdit, fnVars, persistTimerRef, timeouts, inflight, saveScenesCall,
                 settled, sessionVars>>

\* the effects of lines 160-320 as in EffRunEffects, the history following the
\* seed effect
SeedRunEffects(initial, survivors) ==
  \E local \in LocalManuscripts :
  \E reread \in {normalizeStore(StoreBlob(initial), UsedBy(initial))} :
  \E loaded \in {IF reread.threw THEN initial ELSE reread.value[1]} :
  \E listed \in {IF ~backendEnabled /\ local # None
                   THEN mergeChaptersFromList(loaded, local[1], UsedBy(loaded))
                   ELSE loaded} :
  \* seed effect (lines 308-320): the key holds a seed and seedAppliedRef was
  \* reset by the cache-load effect of this run
  \E final \in {IF seedCache # None
                  THEN integrateSeed(listed, seedCache[1], UsedBy(listed))
                  ELSE listed} :
  \E canon \in {CanonStore(final, IdsInOrder(final, None))} :
    /\ sceneStore' = canon
    /\ storeCache' = Some(StoreBlob(canon))
    /\ IF backendEnabled /\ ~suppressPersist
         THEN scheduleBackendPersist(initial)
         ELSE UNCHANGED <<timeouts, persistTimerRef>>
    /\ suppressPersist' = FALSE
    /\ seedApplied' = (seedCache # None)
    /\ seedCache' = IF seedCache # None THEN removeItem(seedCache) ELSE seedCache
    /\ seedLog' = IF seedCache # None THEN SeedIntegrated(listed, final)
                  ELSE IF seedLog # None /\ seedLog[1].times > 0
                    THEN Some([seedLog[1] EXCEPT !.later = TRUE])
                  ELSE seedLog
    /\ inflight' = survivors \cup
         (IF backendEnabled
            THEN {[kind |-> "loadScenes", cancelled |-> FALSE, detached |-> FALSE],
                  [kind |-> "loadManuscript", cancelled |-> FALSE, detached |-> FALSE]}
            ELSE {})

SeedParked == <<persistTimer, scenesReq, manuscriptReq, plan, scheduledOrigin, lastEdit, fnVars,
               saveScenesCall, settled, sessionVars>>

\* Scene Builder mounts: the useState initializer (lines 95-108), then the effects
SeedMount ==
  /\ ~mounted
  /\ mounted' = TRUE
  /\ \E usedCache \in {(IF storeCache = None THEN {} ELSE BlobSceneIds(storeCache[1]))
                        \cup BackendIds} :
     \E read \in {IF storeCache # None /\ storeCache[1].chapters # None
                     THEN normalizeStore(storeCache[1], usedCache) ELSE Throw} :
     \E initial \in {IF read.threw THEN createDefaultStore(FreshId(usedCache, 1))
                      ELSE read.value[1]} :
       SeedRunEffects(initial, inflight)
  /\ UNCHANGED <<backendEnabled, SeedParked>>

\* the user leaves Scene Builder
SeedUnmount ==
  /\ mounted
  /\ mounted' = FALSE
  /\ sceneStore' = NoStore
  /\ suppressPersist' = FALSE /\ seedApplied' = FALSE
  /\ timeouts' = {[t EXCEPT !.detached = TRUE] : t \in clearTimeout(timeouts, persistTimerRef)}
  /\ persistTimerRef' = 0
  /\ inflight' = {[r EXCEPT !.cancelled = TRUE, !.detached = TRUE] : r \in inflight}
  /\ UNCHANGED <<backendEnabled, storeCache, seedCache, seedLog, SeedParked>>

\* sceneSeedKey changes and comes back while the component is mounted (the
\* project is switched away and back): the seed effect runs again on the key
\* the integration emptied
SeedEffectRunsAgain ==
  /\ mounted
  /\ SeedRunEffects(sceneStore, {[r EXCEPT !.cancelled = TRUE] : r \in inflight})
  /\ UNCHANGED <<mounted, backendEnabled, SeedParked>>

SeedNext ==
  \/ SeedOpenInSceneBuilder
  \/ SeedMount
  \/ SeedUnmount
  \/ SeedEffectRunsAgain

SpecSeed == SeedInit /\ [][SeedNext]_vars

\* C24: a seed written by openInSceneBuilder is integrated at most once; the
\* integration appends exactly one scene to the seed's chapter, keeps the scenes
\* that were there, makes the new scene current and removes the seed key, and no
\* later effect run or mount integrates the seed again
C24_SeedConsumedOnce ==
  (seedLog # None /\ seedLog[1].times > 0)
    => /\ seedLog[1].times = 1
       /\ seedLog[1].after = seedLog[1].before + 1
       /\ seedLog[1].kept
       /\ seedLog[1].current
       /\ seedCache = None

\* a seed was integrated into a chapter that had a scene, and the effects ran
\* again afterwards
C24_Witness ==
  /\ seedLog # None /\ seedLog[1].times = 1 /\ seedLog[1].later
  /\ seedLog[1].before >= 1 /\ mounted

-----------------------------------------------------------------------------
(* SpecPointers: the pointers the two merges leave (mergeBackendScenes lines
   1390-1395, mergeChaptersFromList lines 1483-1491) *)

\* the responses merged before the pointers are resolved: one row, of chapter 7
\* or of chapter 8
PointerResponses == {scenes \in BackendResponses : Len(scenes) = 1 /\ scenes[1].chapterTitle # ""}
                    \cup {<<BackendScene(8, "", RawScene(0, 103, SceneN(1), 5))>>}
\* the stores whose pointers are resolved: currentSceneId names the first scene
\* of a chapter (11), a later scene (12, 32) or no scene (99)
PointerStores ==
  {[store EXCEPT !.currentSceneId = sceneId] :
     store \in {sample \in SampleStores : sample.currentSceneId = 99},
     sceneId \in {11, 12, 32, 99}}

PointersInit ==
  /\ CompParked
  /\ fnOp = ""
  /\ fnIn \in [store : PointerStores, chapters : ManuscriptLists, scenes : PointerResponses]
  /\ fnOut = None

\* mergeBackendScenes merges a response into the store, then mergeChaptersFromList
\* merges the manuscript list into the chapters map that came out, both given
\* the pointers of the store
FnResolvePointers ==
  /\ fnOp = ""
  /\ fnOp' = "resolvePointers"
  /\ \E listed \in {mergeChaptersFromList(fnIn.store, fnIn.chapters, SampleUsed)} :
     \E incoming \in {[listed EXCEPT !.currentChapterId = fnIn.store.currentChapterId,
                                     !.currentSceneId = fnIn.store.currentSceneId]} :
     \E fromBackend \in {mergeBackendScenes(incoming,
                           groupScenesByChapter(fnIn.scenes, SampleUsed), SampleUsed)} :
     \E again \in {[fromBackend EXCEPT !.currentChapterId = fnIn.store.currentChapterId,
                                       !.currentSceneId = fnIn.store.currentSceneId]} :
       fnOut' = [incoming |-> again,
                 fromBackend |-> fromBackend,
                 fromList |-> mergeChaptersFromList(again, fnIn.chapters, SampleUsed)]
  /\ UNCHANGED <<fnIn, compVars>>

PointersNext == FnResolvePointers
SpecPointers == PointersInit /\ [][PointersNext]_vars

\* C26: given the same incoming currentChapterId and currentSceneId and the
\* same post-merge chapters map, mergeChaptersFromList and mergeBackendScenes
\* leave the same currentChapterId and the same currentSceneId
C26_SamePointers ==
  (fnOp = "resolvePointers" /\ fnOut.fromList.chapters = fnOut.fromBackend.chapters)
    => /\ fnOut.fromList.currentChapterId = fnOut.fromBackend.currentChapterId
       /\ fnOut.fromList.currentSceneId = fnOut.fromBackend.currentSceneId


-----------------------------------------------------------------------------
(* SpecSession: one mounted Scene Builder with a backend, the active project
   of the ProjectContext changing under it (Navigation's project switcher,
   ProjectContext's setActiveProject after listProjects), user mutations,
   responses and the debounce timer. localStorage may be full: setItem then
   throws, which the persist effect catches (lines 161-165). *)

Projects == {"default", "p2"}

\* localStorage.setItem(storeKey, text) in the try of lines 161-165, on what the
\* key holds
setItem(cached, text) == IF quotaExceeded THEN cached ELSE Some(text)

\* the write of a store key the history keeps: the key's project and the
\* project the written store was loaded for
KeyWrite(project, owner) ==
  IF quotaExceeded THEN {} ELSE {[key |-> project, owner |-> owner]}

\* scheduleBackendPersist(store) of the render of `project` (lines 322-328): the
\* timer's closure holds the store and persistScenesToBackend of that render,
\* which passes activeProject to saveScenes (line 348)
sessionSchedule(store, project, owner) ==
  /\ timeouts' = clearTimeout(timeouts, persistTimerRef)
                   \cup {[handle |-> FreshHandle, payload |-> persistPayload(store),
                          workspace |-> project, owner |-> owner]}
  /\ persistTimerRef' = FreshHandle

SessInit ==
  /\ FnParked
  /\ sceneStore = NoStore /\ mounted = FALSE /\ backendEnabled = TRUE
  /\ suppressPersist = FALSE /\ persistTimer = None /\ seedApplied = FALSE
  /\ storeCache = None /\ seedCache = None
  /\ scenesReq = "none" /\ manuscriptReq = "none" /\ plan = None
  /\ scheduledOrigin = "none" /\ lastEdit = None
  /\ persistTimerRef = 0 /\ timeouts = {} /\ inflight = {}
  /\ saveScenesCall = None /\ settled = None /\ seedLog = None
  /\ activeProject = "default" /\ quotaExceeded \in BOOLEAN /\ storeOwner = ""
  /\ keyWrites = {} /\ userEdit = None

SessParked == <<backendEnabled, persistTimer, seedApplied, seedCache, scenesReq, manuscriptReq,
                plan, scheduledOrigin, lastEdit, settled, seedLog, quotaExceeded, fnVars>>

\* a render commits `store` under the active project: the persist effect
\* (lines 160-170) with suppressPersistRef.current = suppress
SessCommit(store, suppress) ==
  \E canon \in {CanonStore(store, IdsInOrder(store, None))} :
    /\ sceneStore' = canon
    /\ storeCache' = setItem(storeCache, StoreBlob(canon))
    /\ keyWrites' = KeyWrite(activeProject, storeOwner)
    /\ IF backendEnabled /\ ~suppress
         THEN sessionSchedule(store, activeProject, storeOwner)
         ELSE UNCHANGED <<timeouts, persistTimerRef>>
    /\ suppressPersist' = FALSE

\* the effects that depend on the project run for `project` on the store
\* `initial` of the render, which was loaded for `owner`; `cached` is what the
\* key of `project` holds. The persist effect (160-170) runs first; the
\* cache-load effect (172-190) sets the guard and calls setSceneStore only with
\* a cached store it can read; the render of that store runs the persist effect
\* again, which resets the guard.
SessRunEffects(initial, project, owner, cached, survivors) ==
  \E written \in {setItem(cached, StoreBlob(initial))} :
  \E reread \in {IF written = None THEN Throw
                 ELSE normalizeStore(written[1], UsedBy(initial))} :
  \E final \in {IF reread.threw THEN initial ELSE reread.value[1]} :
  \E canon \in {CanonStore(final, IdsInOrder(final, None))} :
    /\ sceneStore' = canon
    /\ storeCache' = IF reread.threw THEN written ELSE setItem(written, StoreBlob(canon))
    /\ keyWrites' = KeyWrite(project, owner)
                      \cup (IF reread.threw THEN {} ELSE KeyWrite(project, project))
    /\ IF backendEnabled /\ ~suppressPersist
         THEN sessionSchedule(initial, project, owner)
         ELSE UNCHANGED <<timeouts, persistTimerRef>>
    /\ suppressPersist' = reread.threw
    /\ storeOwner' = IF reread.threw THEN owner ELSE project
    /\ inflight' = survivors \cup
         {[kind |-> "loadScenes", cancelled |-> FALSE, detached |-> FALSE],
          [kind |-> "loadManuscript", cancelled |-> FALSE, detached |-> FALSE]}

\* the component mounts under the active project: the useState initializer
\* (lines 95-108), then the effects
SessMount ==
  /\ ~mounted
  /\ mounted' = TRUE
  /\ \E usedCache \in {(IF storeCache = None THEN {} ELSE BlobSceneIds(storeCache[1]))
                        \cup BackendIds} :
     \E initial \in {initialSceneStore(storeCache, usedCache).value[1]} :
       SessRunEffects(initial, activeProject, activeProject, storeCache, inflight)
  /\ UNCHANGED <<activeProject, saveScenesCall, userEdit, SessParked>>

\* setActiveProject(project) while the component is mounted: the cleanups
\* cancel the requests, the effects run for the new project on the store of
\* this render. With a full storage nothing was written under the new key.
\* The session is followed through one change of project, away from the
\* project the ProjectContext starts with.
SessSwitchProject ==
  /\ mounted
  /\ activeProject = "default"
  /\ \E project \in Projects \ {activeProject} :
       /\ activeProject' = project
       /\ SessRunEffects(sceneStore, project, storeOwner, None,
                         {[r EXCEPT !.cancelled = TRUE] : r \in inflight})
  /\ userEdit' = None
  /\ UNCHANGED <<mounted, saveScenesCall, SessParked>>

\* the chapter select (lines 913-924): the user moves on to one of the store's
\* manuscript chapters
SessSelectChapter ==
  /\ mounted
  /\ \E chapterId \in DOMAIN sceneStore.chapters \ {sceneStore.currentChapterId, "standalone"} :
       SessCommit(selectChapter(sceneStore, chapterId, FreshId(UsedBy(sceneStore), 1)),
                  suppressPersist)
  /\ userEdit' = None
  /\ UNCHANGED <<mounted, activeProject, storeOwner, inflight, saveScenesCall, SessParked>>

\* what the history keeps of a user mutation until the store changes again: its
\* number in the row of mutations and whether the persist effect of its render
\* scheduled the remote write
UserEdit ==
  Some([n |-> IF userEdit = None THEN 1 ELSE userEdit[1].n + 1,
        scheduled |-> backendEnabled /\ ~suppressPersist])

\* updateScene, addScene or removeScene on the current chapter
SessUserMutation ==
  /\ mounted
  /\ sceneStore.currentChapterId \in DOMAIN sceneStore.chapters
  /\ userEdit # None => userEdit[1].n < MaxEdits
  /\ \E store \in
         {updateScene(sceneStore, ActiveSceneId(sceneStore), updater, UsedBy(sceneStore)) :
            updater \in Updaters}
         \cup {removeScene(sceneStore, ActiveSceneId(sceneStore), UsedBy(sceneStore))}
         \cup (IF /\ Len(CurrentChapterOf(sceneStore).scenes) < MaxScenes
                  /\ Cardinality(StoreSceneIds(sceneStore.chapters)) < MaxStoreScenes
                 THEN {addScene(sceneStore, UsedBy(sceneStore))} ELSE {}) :
       /\ SessCommit(store, suppressPersist)
       /\ userEdit' = UserEdit
  /\ saveScenesCall' = None
  /\ UNCHANGED <<mounted, activeProject, storeOwner, inflight, SessParked>>

\* loadScenes settles (lines 197-205)
SessScenesSettle ==
  /\ \E pending \in inflight : \E outcome \in ScenesOutcomes :
       /\ pending.kind = "loadScenes"
       /\ inflight' = inflight \ {pending}
       /\ \E grouped \in {groupScenesByChapter(outcome.scenes, UsedBy(sceneStore))} :
            IF resolved(outcome) /\ ~effectCancelled(pending) /\ DOMAIN grouped # {}
              THEN /\ SessCommit(mergeBackendScenes(sceneStore, grouped, UsedBy(sceneStore)),
                                 TRUE)
                   /\ userEdit' = None
              ELSE UNCHANGED <<sceneStore, storeCache, keyWrites, timeouts, persistTimerRef,
                               suppressPersist, userEdit>>
  /\ UNCHANGED <<mounted, activeProject, storeOwner, saveScenesCall, SessParked>>

\* loadManuscript settles (lines 216-227)
SessManuscriptSettle ==
  /\ \E pending \in inflight : \E outcome \in ManuscriptOutcomes :
       /\ pending.kind = "loadManuscript"
       /\ inflight' = inflight \ {pending}
       /\ IF resolved(outcome) /\ ~effectCancelled(pending)
            THEN /\ SessCommit(mergeChaptersFromList(sceneStore, outcome.chapters,
                                                     UsedBy(sceneStore)), TRUE)
                 /\ userEdit' = None
            ELSE UNCHANGED <<sceneStore, storeCache, keyWrites, timeouts, persistTimerRef,
                             suppressPersist, userEdit>>
  /\ UNCHANGED <<mounted, activeProject, storeOwner, saveScenesCall, SessParked>>

\* the debounce timer fires: persistScenesToBackend(store) of its closure calls
\* saveScenes(payload, activeProject of its render) (lines 327, 330-352); the
\* history keeps whether the payload is that of the store the component holds
\* at that moment
SessTimerFire ==
  /\ \E t \in timeouts :
       /\ timeouts' = timeouts \ {t}
       /\ saveScenesCall' = Some([workspace |-> t.workspace,
                                  current |-> t.payload = persistPayload(sceneStore)])
  /\ UNCHANGED <<sceneStore, mounted, suppressPersist, storeCache, persistTimerRef, inflight,
                 activeProject, storeOwner, keyWrites, userEdit, SessParked>>

SessNext ==
  \/ SessMount
  \/ SessSwitchProject
  \/ SessSelectChapter
  \/ SessUserMutation
  \/ SessScenesSettle
  \/ SessManuscriptSettle
  \/ SessTimerFire

SpecSession == SessInit /\ [][SessNext]_vars

\* the browser fires a timeout that was set and not cleared
SpecSessionLive == SpecSession /\ WF_vars(SessTimerFire)

\* C25: the guard is one-shot and never left suppressed so that a later user
\* mutation goes unscheduled: with a backend, the persist effect of every user
\* mutation's render schedules the remote write
C25_UserMutationScheduled == userEdit # None => userEdit[1].scheduled

\* C27: project isolation: no store is written under the cache key of a
\* project other than the one it was loaded for, and no store is scheduled for
\* saveScenes with another project's workspace
C27_ProjectIsolation ==
  /\ \A w \in keyWrites : w.key = w.owner
  /\ \A t \in timeouts : t.workspace = t.owner

\* C28: when the debounce timer fires, the payload handed to saveScenes is the
\* payload of the store the component holds at that moment
C28_PayloadIsCurrent == saveScenesCall # None => saveScenesCall[1].current

\* the n-th user mutation in a row is the latest one
Edited(n) == userEdit # None /\ userEdit[1].n = n
\* saveScenes was called after the latest user mutation with the payload of
\* the store that mutation gave, which the component still holds
EditSaved == saveScenesCall # None /\ saveScenesCall[1].current

\* C30: with a backend, a user mutation after which the store does not change
\* again is followed by a saveScenes call whose payload is built from the
\* mutated store
C30_MutationEventuallySaved ==
  \A n \in 1..MaxEdits : Edited(n) ~> (~Edited(n) \/ EditSaved)

====
